---- MODULE Spec2Model ----
(***************************************************************************)
(* The limit-order agent of src/agent/binance_test.py (class TradingAgent) *)
(* together with the exchange it talks to.                                 *)
(*                                                                         *)
(* Number grid.  The code computes in floats; the model computes the same  *)
(* formulas exactly on a fixed-point grid:                                 *)
(*   - a price is an integer number of ticks, one tick = 10^-8 quote per   *)
(*     base (price_precision = 8 decimals, the grid round(x, 8) lands on); *)
(*   - a quantity is an integer number of lots (exchange stepSize each);   *)
(*   - a quote balance is an integer number of value units, one value unit *)
(*     = the worth of one lot at a price of one tick;                      *)
(*   - a base balance is an integer number of tenths of a base unit;       *)
(*   - the clock is in whole seconds.                                      *)
(*                                                                         *)
(* Every method is one action: the whole call, with every client call it   *)
(* makes.  The outcome of each client call (answer or exception) is an     *)
(* input of the action.  The variables lastOp .. ret record what the call  *)
(* that has just ended did (its client calls, its position assignments,    *)
(* its place_limit_order calls, whether it raised, what it returned) and   *)
(* inputs what it was given; Return clears them when the caller moves on,  *)
(* and the exchange moves between calls.                                   *)
(***************************************************************************)
EXTENDS Integers, Sequences, FiniteSets, TLC

VARIABLES
    test_mode,       \* self.test_mode, fixed at construction
    position,        \* self.position
    pending_orders,  \* self.pending_orders: order id -> entry
    exchange,        \* the exchange's order book for this account: id -> order
    nextId,          \* the next order id the exchange assigns
    now,             \* time.time()
    lastPrice,       \* the symbol's last traded price (get_symbol_ticker)
    lastOp,          \* the method that has just returned or raised, else "idle"
    calls,           \* the client and strategy calls of the last method call, in order
    placed,          \* the place_limit_order calls of the last method call, in order
    inputs,          \* the arguments and answers the last method call was given
    writes,          \* the order ids whose fill the last call assigned to position
    raised,          \* whether the last method call ended by raising
    ret,             \* what the last method call returned
    prev,            \* the call that ended right before the last one began
    cycles,          \* the run() cycles in progress on the agent, when they overlap
    strategy_signals, \* the frame a strategy's generate_signals is building
    simulated,       \* the simulated TradingAgent of VET.py
    paging           \* DataLoader.fetch_ohlcv's paging loop

vars == <<test_mode, position, pending_orders, exchange, nextId, now, lastPrice,
          lastOp, calls, placed, inputs, writes, raised, ret, prev, cycles, strategy_signals,
          simulated, paging>>

----------------------------------------------------------------------------
(* Program constants                                                       *)

order_timeout == 300
risk_pct == 1
safety_buffer_pct == 5
price_precision == 8
drift_threshold_pct == 10

SIDE_BUY == "BUY"
SIDE_SELL == "SELL"

None == [side |-> "flat"]

(* The order id of test mode's made-up order ('test_order'); the exchange  *)
(* numbers its orders from 1.  A client call about no order carries it too. *)
test_order == 0
NoOrder == test_order

(* The market the model runs in: the lot step the exchange reports in its  *)
(* LOT_SIZE filter, in base units, and what follows from it for the grid.  *)
step_size == 10^4
ValuePerQuote == (10^price_precision) \div step_size
TenthsPerLot == 10 * step_size

(* The exchange's MIN_NOTIONAL filter for the symbol, 0.05 quote, in value *)
(* units: part of what get_symbol_info answers, next to LOT_SIZE.          *)
min_notional == ValuePerQuote \div 20

----------------------------------------------------------------------------
(* Bounds of the model                                                     *)

MaxOrders == 2
MaxSlack == 1

SignalPrices == {200}
PlacePrices == {190}
PlaceSellPrices == {210}
PlaceQuantities == {2}
LastPrices == {150, 209}
LiveQuoteBalances == {0, 10000, 38000}
LiveBaseBalances == {0, 200 * TenthsPerLot}
EndStatuses == {"CANCELED"}

MaxTime == order_timeout + MaxSlack

(* Bounds of the sizing and pricing functions taken by themselves. *)
MaxFnBalance == 30
MaxFnPrice == 3
MaxFnStep == 3
FnRiskPcts == {1, 50, 100}
SubTicks == 4
MaxFnSignal == 24
FnBufferPcts == {1, 5, 50, 99}
FnTradeSignals == {95, 100, 101, 105}
FnTradeBalances == {0, 1, 500, 1000}
FnTradeSteps == {1, 10}
FnTradeBufferPcts == {5, 10}

----------------------------------------------------------------------------
(* Helpers                                                                 *)

Abs(x) == IF x < 0 THEN -x ELSE x

Min(S) == CHOOSE x \in S : \A y \in S : x <= y

RECURSIVE SortedSeq(_)
SortedSeq(S) == IF S = {} THEN <<>> ELSE <<Min(S)>> \o SortedSeq(S \ {Min(S)})

Call(fn, order_id, ok) == [fn |-> fn, id |-> order_id, ok |-> ok]

EmptyMap == [x \in {} |-> x]

Drop(f, k) == [x \in (DOMAIN f) \ {k} |-> f[x]]

Put(f, k, v) == [x \in (DOMAIN f) \cup {k} |-> IF x = k THEN v ELSE f[x]]

(* What a method returned: None, a bool, or the order dict. *)
RetNone == [tag |-> "None"]

RetBool(b) == [tag |-> "bool", value |-> b]

RetNumber(has_raised, v) == IF has_raised THEN RetNone ELSE [tag |-> "number", value |-> v]

RetOrder(order_id, side, price, quantity) ==
    [tag |-> "order", orderId |-> order_id, status |-> "NEW",
     price |-> price, side |-> side, origQty |-> quantity]

----------------------------------------------------------------------------
(* The exchange client.  Each operator is one client call: what it answers *)
(* and what it does to the exchange.                                       *)

(* client.get_order: the exchange's record of the order. *)
get_order(ex, order_id) ==
    [status |-> ex[order_id].status,
     price |-> ex[order_id].price,
     executedQty |-> ex[order_id].executedQty,
     side |-> ex[order_id].side]

(* client.cancel_order succeeds on an open order, which it cancels; on any *)
(* other order the exchange rejects the request and the call raises.       *)
cancel_order_ok(ex, order_id, failed) ==
    /\ order_id \notin failed
    /\ order_id \in DOMAIN ex
    /\ ex[order_id].status = "NEW"

cancel_order(ex, order_id) ==
    [ex EXCEPT ![order_id].status = "CANCELED"]

(* client.create_order: the exchange books a new limit order under the     *)
(* next order id.                                                          *)
create_order(ex, order_id, side, price, quantity) ==
    Put(ex, order_id,
        [status |-> "NEW", side |-> side, price |-> price,
         origQty |-> quantity, executedQty |-> 0])

----------------------------------------------------------------------------
(* TradingAgent.check_pending_orders                                       *)
(*                                                                         *)
(* m is the state the pass works on: pending, position, ex (exchange),     *)
(* any_filled, calls, writes.  statusFail and cancelFail are the order ids  *)
(* whose get_order / cancel_order call fails on the network.               *)

(* The order_info of test mode: a fill made up from the tracked entry. *)
simulated_order_info(m, order_id) ==
    [status |-> "FILLED",
     price |-> m.pending[order_id].price,
     executedQty |-> m.pending[order_id].quantity,
     side |-> m.pending[order_id].side]

(* Slip: the Sell side forgotten, every fill opens a Long. *)
position_after_fill_long_only(order_info) ==
    [side |-> "long",
     entry_price |-> order_info.price,
     quantity |-> order_info.executedQty,
     asset |-> "base"]

(* The position a fill leaves: Long for a buy, None for anything else. *)
position_after_fill(order_info) ==
    IF order_info.side = SIDE_BUY
    THEN [side |-> "long",
          entry_price |-> order_info.price,
          quantity |-> order_info.executedQty,
          asset |-> "base"]
    ELSE None

(* Slip: the del of the FILLED branch left out. *)
apply_fill_keeps_order(m, order_id, order_info) ==
    [m EXCEPT !.any_filled = TRUE,
              !.position = position_after_fill(order_info),
              !.writes = Append(@, order_id)]

(* Slip: a buy filled while a Long is held added to it. *)
apply_fill_nets_position(m, order_id, order_info) ==
    [m EXCEPT !.any_filled = TRUE,
              !.position = IF order_info.side = SIDE_BUY /\ m.position # None
                           THEN [m.position EXCEPT
                                    !.quantity = @ + order_info.executedQty]
                           ELSE position_after_fill(order_info),
              !.writes = Append(@, order_id),
              !.pending = Drop(@, order_id)]

(* The FILLED branch: assign position, forget the order. *)
apply_fill(m, order_id, order_info) ==
    [m EXCEPT !.any_filled = TRUE,
              !.position = position_after_fill(order_info),
              !.writes = Append(@, order_id),
              !.pending = Drop(@, order_id)]

(* Slip: >= for > in the timeout test. *)
timed_out_at_timeout(entry_ts, t) == t - entry_ts >= order_timeout

timed_out(entry_ts, t) == t - entry_ts > order_timeout

(* abs(current_price - original_price) / original_price * 100 > 10.0 *)
price_moved(current_price, original_price) ==
    Abs(current_price - original_price) * 100 > drift_threshold_pct * original_price

(* Slip: the order forgotten also when cancel_order raised. *)
cancel_stale_always_drops(m, order_id, cancelFail) ==
    IF cancel_order_ok(m.ex, order_id, cancelFail)
    THEN [m EXCEPT !.calls = Append(@, Call("cancel_order", order_id, TRUE)),
                   !.ex = cancel_order(@, order_id),
                   !.pending = Drop(@, order_id)]
    ELSE [m EXCEPT !.calls = Append(@, Call("cancel_order", order_id, FALSE)),
                   !.pending = Drop(@, order_id)]

(* Slip: the cancellation counted as a fill in the return value. *)
cancel_stale_reports_fill(m, order_id, cancelFail) ==
    IF cancel_order_ok(m.ex, order_id, cancelFail)
    THEN [m EXCEPT !.calls = Append(@, Call("cancel_order", order_id, TRUE)),
                   !.ex = cancel_order(@, order_id),
                   !.pending = Drop(@, order_id),
                   !.any_filled = TRUE]
    ELSE [m EXCEPT !.calls = Append(@, Call("cancel_order", order_id, FALSE))]

(* The stale branch: cancel on the exchange, then forget the order; when   *)
(* cancel_order raises, the del is not reached and the handler only logs.  *)
cancel_stale(m, order_id, cancelFail) ==
    IF cancel_order_ok(m.ex, order_id, cancelFail)
    THEN [m EXCEPT !.calls = Append(@, Call("cancel_order", order_id, TRUE)),
                   !.ex = cancel_order(@, order_id),
                   !.pending = Drop(@, order_id)]
    ELSE [m EXCEPT !.calls = Append(@, Call("cancel_order", order_id, FALSE))]

(* Slip: any_filled = False in the branch of an order that is not filled,  *)
(* so that the flag tells of the last order only.                          *)
handle_order_info_last_only(m, order_id, order_info, t, current_price, cancelFail) ==
    IF order_info.status = "FILLED"
    THEN apply_fill(m, order_id, order_info)
    ELSE IF /\ timed_out(m.pending[order_id].timestamp, t)
            /\ price_moved(current_price, m.pending[order_id].price)
         THEN [cancel_stale(m, order_id, cancelFail) EXCEPT !.any_filled = FALSE]
         ELSE [m EXCEPT !.any_filled = FALSE]

(* Slip: the staleness test made before the status is looked at. *)
handle_order_info_stale_first(m, order_id, order_info, t, current_price, cancelFail) ==
    IF /\ timed_out(m.pending[order_id].timestamp, t)
       /\ price_moved(current_price, m.pending[order_id].price)
    THEN cancel_stale(m, order_id, cancelFail)
    ELSE IF order_info.status = "FILLED"
         THEN apply_fill(m, order_id, order_info)
         ELSE m

(* What the loop body does once it holds order_info. *)
handle_order_info(m, order_id, order_info, t, current_price, cancelFail) ==
    IF order_info.status = "FILLED"
    THEN apply_fill(m, order_id, order_info)
    ELSE IF /\ timed_out(m.pending[order_id].timestamp, t)
            /\ price_moved(current_price, m.pending[order_id].price)
         THEN cancel_stale(m, order_id, cancelFail)
         ELSE m

(* Slip: the handler's commented-out del put back, an order whose status   *)
(* query failed forgotten.                                                 *)
check_one_forgets_failed(m, order_id, tm, t, current_price, statusFail, cancelFail) ==
    IF tm
    THEN handle_order_info(m, order_id, simulated_order_info(m, order_id),
                           t, current_price, cancelFail)
    ELSE IF order_id \in statusFail
         THEN [m EXCEPT !.calls = Append(@, Call("get_order", order_id, FALSE)),
                        !.pending = Drop(@, order_id)]
         ELSE handle_order_info(
                  [m EXCEPT !.calls = Append(@, Call("get_order", order_id, TRUE))],
                  order_id, get_order(m.ex, order_id), t, current_price, cancelFail)

(* One iteration of the loop over list(self.pending_orders.keys()). *)
check_one(m, order_id, tm, t, current_price, statusFail, cancelFail) ==
    IF tm
    THEN handle_order_info(m, order_id, simulated_order_info(m, order_id),
                           t, current_price, cancelFail)
    ELSE IF order_id \in statusFail
         THEN [m EXCEPT !.calls = Append(@, Call("get_order", order_id, FALSE))]
         ELSE handle_order_info(
                  [m EXCEPT !.calls = Append(@, Call("get_order", order_id, TRUE))],
                  order_id, get_order(m.ex, order_id), t, current_price, cancelFail)

RECURSIVE check_loop(_, _, _, _, _, _, _)
check_loop(m, ids, tm, t, current_price, statusFail, cancelFail) ==
    IF ids = <<>>
    THEN m
    ELSE check_loop(check_one(m, Head(ids), tm, t, current_price, statusFail, cancelFail),
                    Tail(ids), tm, t, current_price, statusFail, cancelFail)

(* Slip: the ticker read before the registry is looked at. *)
check_pending_orders_ticker_first(m, tm, t, current_price, tickerFail, statusFail, cancelFail) ==
    IF tickerFail
    THEN [m EXCEPT !.calls = Append(@, Call("get_symbol_ticker", NoOrder, FALSE)),
                   !.raised = TRUE]
    ELSE LET start == [m EXCEPT !.calls = Append(@, Call("get_symbol_ticker", NoOrder, TRUE))]
             done == check_loop(start, SortedSeq(DOMAIN m.pending), tm, t,
                                current_price, statusFail, cancelFail)
         IN [done EXCEPT !.ret = RetBool(done.any_filled)]

(* The whole method.  tickerFail: the get_symbol_ticker call raises, which *)
(* no handler of this method catches.                                      *)
check_pending_orders(m, tm, t, current_price, tickerFail, statusFail, cancelFail) ==
    IF DOMAIN m.pending = {}
    THEN [m EXCEPT !.ret = RetBool(FALSE)]
    ELSE IF tickerFail
         THEN [m EXCEPT !.calls = Append(@, Call("get_symbol_ticker", NoOrder, FALSE)),
                        !.raised = TRUE]
         ELSE LET start == [m EXCEPT !.calls = Append(@, Call("get_symbol_ticker", NoOrder, TRUE))]
                  done == check_loop(start, SortedSeq(DOMAIN m.pending), tm, t,
                                     current_price, statusFail, cancelFail)
              IN [done EXCEPT !.ret = RetBool(done.any_filled)]

----------------------------------------------------------------------------
(* Sizing and pricing                                                      *)

(* The nearest integer to n / d (d > 0, n >= 0), a tie going to the even   *)
(* neighbour: Python's round() on the exact value.                         *)
round_half_even(n, d) ==
    LET q == n \div d
        r == n % d
    IN IF 2 * r < d THEN q
       ELSE IF 2 * r > d THEN q + 1
       ELSE IF q % 2 = 0 THEN q ELSE q + 1

(* The values round(n / d, 8) can land on, counted in units of 10^-8: the  *)
(* nearest whole number, and at a tie either neighbour, since the float    *)
(* that stands for the tie lies a hair to one side of it.                  *)
round_outcomes(n, d) ==
    LET q == n \div d
        r == n % d
    IN IF 2 * r < d THEN {q}
       ELSE IF 2 * r > d THEN {q + 1}
       ELSE {q, q + 1}

(* Slip: the buffer added on both sides. *)
order_price_outcomes_adds_buffer(signal_price, is_buy, buffer_pct, per_unit) ==
    round_outcomes(signal_price * (100 + buffer_pct), 100 * per_unit)

(* determine_order_price for any safety_buffer_pct (in percent) and any    *)
(* signal price, given as signal_price / per_unit units of 10^-8: the      *)
(* prices the method can return.                                           *)
order_price_outcomes(signal_price, is_buy, buffer_pct, per_unit) ==
    IF is_buy
    THEN round_outcomes(signal_price * (100 - buffer_pct), 100 * per_unit)
    ELSE round_outcomes(signal_price * (100 + buffer_pct), 100 * per_unit)

(* TradingAgent.determine_order_price, in ticks. *)
determine_order_price(signal_price, is_buy) ==
    IF is_buy
    THEN round_half_even(signal_price * (100 - safety_buffer_pct), 100)
    ELSE round_half_even(signal_price * (100 + safety_buffer_pct), 100)

(* Slip: the test-mode branch left out, the client asked in every mode. *)
get_balance_always_live(m, is_quote, tm, live_balance, fails) ==
    IF fails
    THEN [m EXCEPT !.calls = Append(@, Call("get_asset_balance", NoOrder, FALSE)),
                   !.raised = TRUE]
    ELSE [m EXCEPT !.calls = Append(@, Call("get_asset_balance", NoOrder, TRUE)),
                   !.val = live_balance]

(* TradingAgent.get_balance.  In test mode the fixed balances, 1000 quote  *)
(* and 0.1 base, and no client call; live, client.get_asset_balance, whose *)
(* failure is logged and raised again.  The balance read is left in m.val. *)
get_balance(m, is_quote, tm, live_balance, fails) ==
    IF tm
    THEN [m EXCEPT !.val = IF is_quote THEN 1000 * ValuePerQuote ELSE 1]
    ELSE IF fails
         THEN [m EXCEPT !.calls = Append(@, Call("get_asset_balance", NoOrder, FALSE)),
                        !.raised = TRUE]
         ELSE [m EXCEPT !.calls = Append(@, Call("get_asset_balance", NoOrder, TRUE)),
                        !.val = live_balance]

(* Slip: rounded up to the next step. *)
quantity_on_step_rounds_up(balance, price, is_buy, step, risk) ==
    IF is_buy
    THEN ((balance * risk + 100 * price * step - 1) \div (100 * price * step)) * step
    ELSE ((balance * risk + 100 * step - 1) \div (100 * step)) * step

(* The arithmetic of calculate_quantity for any step and any risk (in      *)
(* percent): math.floor(quantity / step_size) * step_size, where quantity  *)
(* is balance * risk / price for a buy and balance * risk for a sell.      *)
(* balance, step and the result are whole numbers of one quantity unit,    *)
(* price a whole number of balance units per quantity unit.                *)
quantity_on_step(balance, price, is_buy, step, risk) ==
    IF is_buy
    THEN ((balance * risk) \div (100 * price * step)) * step
    ELSE ((balance * risk) \div (100 * step)) * step

(* The same, counted in lots on the agent's grid: a quote balance in value *)
(* units over a price in ticks is a count of lots, a base balance is in    *)
(* tenths of a base unit.                                                  *)
sized_lots(balance, price, is_buy) ==
    IF is_buy
    THEN quantity_on_step(balance, price, TRUE, 1, risk_pct)
    ELSE quantity_on_step(balance, price, FALSE, TenthsPerLot, risk_pct) \div TenthsPerLot

(* TradingAgent.calculate_quantity: one balance read, then the symbol's    *)
(* LOT_SIZE filter from client.get_symbol_info (in test mode as well),     *)
(* then the size rounded down to the lot step.  The quantity is left in    *)
(* m.val.                                                                  *)
calculate_quantity(m, price, is_buy, tm, live_balance, balanceFails, infoFails) ==
    LET b == get_balance(m, is_buy, tm, live_balance, balanceFails)
    IN IF b.raised THEN b
       ELSE IF infoFails
            THEN [b EXCEPT !.calls = Append(@, Call("get_symbol_info", NoOrder, FALSE)),
                           !.raised = TRUE]
            ELSE [b EXCEPT !.calls = Append(@, Call("get_symbol_info", NoOrder, TRUE)),
                           !.val = sized_lots(b.val, price, is_buy)]

----------------------------------------------------------------------------
(* Order submission and cancellation                                       *)

(* A place_limit_order call as it starts: its arguments, and how many      *)
(* calls the method had made before it.                                    *)
Placing(side, price, quantity, at) ==
    [side |-> side, price |-> price, quantity |-> quantity, at |-> at]

(* self.pending_orders[order['orderId']] = {...} *)
track(pending, order_id, side, price, quantity, t) ==
    Put(pending, order_id,
        [side |-> side, price |-> price, quantity |-> quantity, timestamp |-> t])

(* Slip: position taken at submission, as a market-order agent would. *)
place_limit_order_sets_position(m, side, price, quantity, tm, t, createFails) ==
    IF tm
    THEN [m EXCEPT !.placed = Append(@, Placing(side, price, quantity, Len(m.calls))),
                   !.ret = RetOrder(test_order, side, price, quantity)]
    ELSE IF createFails
         THEN [m EXCEPT !.placed = Append(@, Placing(side, price, quantity, Len(m.calls))),
                        !.calls = Append(@, Call("create_order", NoOrder, FALSE)),
                        !.raised = TRUE]
         ELSE [m EXCEPT !.placed = Append(@, Placing(side, price, quantity, Len(m.calls))),
                        !.calls = Append(@, Call("create_order", m.nextId, TRUE)),
                        !.ex = create_order(@, m.nextId, side, price, quantity),
                        !.pending = track(@, m.nextId, side, price, quantity, t),
                        !.nextId = @ + 1,
                        !.position = IF side = SIDE_BUY
                                     THEN [side |-> "long", entry_price |-> price,
                                           quantity |-> quantity, asset |-> "base"]
                                     ELSE None,
                        !.ret = RetOrder(m.nextId, side, price, quantity)]

(* Slip: the order booked under the lowest id no tracked order holds, as   *)
(* an exchange that hands out the ids of ended orders again would do.      *)
place_limit_order_reuses_id(m, side, price, quantity, tm, t, createFails) ==
    LET order_id == Min({i \in 1..m.nextId : i \notin DOMAIN m.pending})
    IN IF tm
       THEN [m EXCEPT !.placed = Append(@, Placing(side, price, quantity, Len(m.calls))),
                      !.ret = RetOrder(test_order, side, price, quantity)]
       ELSE IF createFails
            THEN [m EXCEPT !.placed = Append(@, Placing(side, price, quantity, Len(m.calls))),
                           !.calls = Append(@, Call("create_order", NoOrder, FALSE)),
                           !.raised = TRUE]
            ELSE [m EXCEPT !.placed = Append(@, Placing(side, price, quantity, Len(m.calls))),
                           !.calls = Append(@, Call("create_order", order_id, TRUE)),
                           !.ex = create_order(@, order_id, side, price, quantity),
                           !.pending = track(@, order_id, side, price, quantity, t),
                           !.nextId = @ + 1,
                           !.ret = RetOrder(order_id, side, price, quantity)]

(* Slip: the failure of create_order logged and not raised again. *)
place_limit_order_swallows(m, side, price, quantity, tm, t, createFails) ==
    IF tm
    THEN [m EXCEPT !.placed = Append(@, Placing(side, price, quantity, Len(m.calls))),
                   !.ret = RetOrder(test_order, side, price, quantity)]
    ELSE IF createFails
         THEN [m EXCEPT !.placed = Append(@, Placing(side, price, quantity, Len(m.calls))),
                        !.calls = Append(@, Call("create_order", NoOrder, FALSE)),
                        !.ret = RetNone]
         ELSE [m EXCEPT !.placed = Append(@, Placing(side, price, quantity, Len(m.calls))),
                        !.calls = Append(@, Call("create_order", m.nextId, TRUE)),
                        !.ex = create_order(@, m.nextId, side, price, quantity),
                        !.pending = track(@, m.nextId, side, price, quantity, t),
                        !.nextId = @ + 1,
                        !.ret = RetOrder(m.nextId, side, price, quantity)]

(* TradingAgent.place_limit_order.  price is already on the tick grid, so  *)
(* "{0:.8f}".format(price) names the same number of ticks.  Test mode      *)
(* returns its made-up order before the tracking lines are reached.  Every *)
(* call is noted in m.placed as it starts (the "Placing ..." log line).    *)
place_limit_order(m, side, price, quantity, tm, t, createFails) ==
    IF tm
    THEN [m EXCEPT !.placed = Append(@, Placing(side, price, quantity, Len(m.calls))),
                   !.ret = RetOrder(test_order, side, price, quantity)]
    ELSE IF createFails
         THEN [m EXCEPT !.placed = Append(@, Placing(side, price, quantity, Len(m.calls))),
                        !.calls = Append(@, Call("create_order", NoOrder, FALSE)),
                        !.raised = TRUE]
         ELSE [m EXCEPT !.placed = Append(@, Placing(side, price, quantity, Len(m.calls))),
                        !.calls = Append(@, Call("create_order", m.nextId, TRUE)),
                        !.ex = create_order(@, m.nextId, side, price, quantity),
                        !.pending = track(@, m.nextId, side, price, quantity, t),
                        !.nextId = @ + 1,
                        !.ret = RetOrder(m.nextId, side, price, quantity)]

(* Slip: the del of the except branch left out. *)
cancel_one_keeps_failed(m, order_id, cancelFail) ==
    IF cancel_order_ok(m.ex, order_id, cancelFail)
    THEN [m EXCEPT !.calls = Append(@, Call("cancel_order", order_id, TRUE)),
                   !.ex = cancel_order(@, order_id),
                   !.pending = Drop(@, order_id)]
    ELSE [m EXCEPT !.calls = Append(@, Call("cancel_order", order_id, FALSE))]

(* One iteration of cancel_pending_orders' loop: the order is forgotten    *)
(* whether cancel_order returned or raised.                                *)
cancel_one(m, order_id, cancelFail) ==
    IF cancel_order_ok(m.ex, order_id, cancelFail)
    THEN [m EXCEPT !.calls = Append(@, Call("cancel_order", order_id, TRUE)),
                   !.ex = cancel_order(@, order_id),
                   !.pending = Drop(@, order_id)]
    ELSE [m EXCEPT !.calls = Append(@, Call("cancel_order", order_id, FALSE)),
                   !.pending = Drop(@, order_id)]

RECURSIVE cancel_loop(_, _, _)
cancel_loop(m, ids, cancelFail) ==
    IF ids = <<>>
    THEN m
    ELSE cancel_loop(cancel_one(m, Head(ids), cancelFail), Tail(ids), cancelFail)

(* Slip: the position given up together with the orders. *)
cancel_pending_orders_flattens(m, tm, cancelFail) ==
    IF tm
    THEN [m EXCEPT !.pending = EmptyMap, !.position = None]
    ELSE [cancel_loop(m, SortedSeq(DOMAIN m.pending), cancelFail)
             EXCEPT !.position = None]

(* TradingAgent.cancel_pending_orders *)
cancel_pending_orders(m, tm, cancelFail) ==
    IF tm
    THEN [m EXCEPT !.pending = EmptyMap]
    ELSE cancel_loop(m, SortedSeq(DOMAIN m.pending), cancelFail)

(* quantity * signal_price < 0.0001, a worth in quote units *)
invalid_quantity(quantity, signal_price) ==
    quantity * signal_price * 10000 < ValuePerQuote

(* Slip: the quantity sized at the raw signal price. *)
order_values_sized_at_signal(is_buy, signal_price, balance, step, buffer_pct, risk, floor_worth) ==
    {LET quantity == quantity_on_step(balance, signal_price, is_buy, step, risk)
     IN IF quantity * signal_price < floor_worth
        THEN <<>>
        ELSE <<Placing(IF is_buy THEN SIDE_BUY ELSE SIDE_SELL, order_price, quantity, 0)>>
     : order_price \in order_price_outcomes(signal_price, is_buy, buffer_pct, 1)}

(* The values execute_trade works out, on any grid: the order price from   *)
(* the signal price, the quantity sized at the order price, the guard      *)
(* quantity * signal_price < 0.0001 (floor_worth is 0.0001 quote on the    *)
(* grid), and the place_limit_order call that follows, if any.  One outcome *)
(* for each price determine_order_price can return.                        *)
order_values(is_buy, signal_price, balance, step, buffer_pct, risk, floor_worth) ==
    {LET quantity == quantity_on_step(balance, order_price, is_buy, step, risk)
     IN IF quantity * signal_price < floor_worth
        THEN <<>>
        ELSE <<Placing(IF is_buy THEN SIDE_BUY ELSE SIDE_SELL, order_price, quantity, 0)>>
     : order_price \in order_price_outcomes(signal_price, is_buy, buffer_pct, 1)}

(* TradingAgent.execute_trade.  signal = 1 buys, anything else sells.      *)
execute_trade(m, signal, signal_price, tm, t, live_balance, balanceFails, infoFails, createFails) ==
    LET is_buy == signal = 1
        side == IF is_buy THEN SIDE_BUY ELSE SIDE_SELL
        order_price == determine_order_price(signal_price, is_buy)
        q == calculate_quantity(m, order_price, is_buy, tm, live_balance,
                                balanceFails, infoFails)
    IN IF q.raised THEN q
       ELSE IF invalid_quantity(q.val, signal_price)
            THEN [q EXCEPT !.ret = RetNone]
            ELSE LET order == place_limit_order(q, side, order_price, q.val,
                                                tm, t, createFails)
                 IN IF order.raised \/ ~tm THEN order
                    ELSE [order EXCEPT !.ret = RetNone]

----------------------------------------------------------------------------
(* Faults.  A method call is run with at most one client call failing on   *)
(* the network: the call at fault.site (about order fault.id, for the two  *)
(* per-order calls).                                                       *)

NoFault == [site |-> "none", id |-> NoOrder]

RunSites == {"get_symbol_ticker", "get_klines", "get_current_signal_prices",
             "balance_base", "balance_quote",
             "buy_balance", "buy_symbol_info", "buy_create_order",
             "sell_balance", "sell_symbol_info", "sell_create_order"}

Faults(sites, ids) ==
    {NoFault}
        \cup {[site |-> s, id |-> NoOrder] : s \in sites}
        \cup {[site |-> s, id |-> i] : s \in {"get_order", "cancel_order"}, i \in ids}

At(fault, site) == fault.site = site

FailedIds(fault, site) == IF fault.site = site THEN {fault.id} ELSE {}

----------------------------------------------------------------------------
(* TradingAgent.run                                                        *)

(* Slip: the failure logged and not raised again. *)
fetch_market_data_swallows(m, fails) ==
    IF fails
    THEN [m EXCEPT !.calls = Append(@, Call("get_klines", NoOrder, FALSE))]
    ELSE [m EXCEPT !.calls = Append(@, Call("get_klines", NoOrder, TRUE))]

(* fetch_market_data: client.get_klines, in test mode as well; a failure   *)
(* is logged and raised again.                                             *)
fetch_market_data(m, fails) ==
    IF fails
    THEN [m EXCEPT !.calls = Append(@, Call("get_klines", NoOrder, FALSE)),
                   !.raised = TRUE]
    ELSE [m EXCEPT !.calls = Append(@, Call("get_klines", NoOrder, TRUE))]

(* self.strategy.get_current_signal_prices(): the strategy answers its two *)
(* trigger prices, or raises.                                              *)
get_current_signal_prices(m, fails) ==
    IF fails
    THEN [m EXCEPT !.calls = Append(@, Call("get_current_signal_prices", NoOrder, FALSE)),
                   !.raised = TRUE]
    ELSE [m EXCEPT !.calls = Append(@, Call("get_current_signal_prices", NoOrder, TRUE))]

(* Slip: the sell side entered on the balance alone, trigger or not. *)
run_sell_ignores_trigger(m, tm, t, has_sell, sell_price, base_balance, live_base, fault) ==
    IF base_balance > 0
    THEN execute_trade(m, -1, sell_price, tm, t, live_base,
                       At(fault, "sell_balance"), At(fault, "sell_symbol_info"),
                       At(fault, "sell_create_order"))
    ELSE m

(* The two guarded execute_trade calls that end run(). *)
run_sell(m, tm, t, has_sell, sell_price, base_balance, live_base, fault) ==
    IF has_sell /\ base_balance > 0
    THEN execute_trade(m, -1, sell_price, tm, t, live_base,
                       At(fault, "sell_balance"), At(fault, "sell_symbol_info"),
                       At(fault, "sell_create_order"))
    ELSE m

(* Slip: no Buy submitted while a Buy is tracked. *)
run_buy_one_per_side(m, tm, t, has_buy, buy_price, quote_balance, live_quote, fault) ==
    IF /\ has_buy /\ quote_balance > 0
       /\ \A order_id \in DOMAIN m.pending : m.pending[order_id].side # SIDE_BUY
    THEN execute_trade(m, 1, buy_price, tm, t, live_quote,
                       At(fault, "buy_balance"), At(fault, "buy_symbol_info"),
                       At(fault, "buy_create_order"))
    ELSE m

run_buy(m, tm, t, has_buy, buy_price, quote_balance, live_quote, fault) ==
    IF has_buy /\ quote_balance > 0
    THEN execute_trade(m, 1, buy_price, tm, t, live_quote,
                       At(fault, "buy_balance"), At(fault, "buy_symbol_info"),
                       At(fault, "buy_create_order"))
    ELSE m

(* Slip: the sell side handled before the buy side. *)
run_sell_first(m, tm, t, current_price, has_buy, buy_price, has_sell, sell_price, live_quote, live_base, fault) ==
    LET checked == check_pending_orders(m, tm, t, current_price,
                                        At(fault, "get_symbol_ticker"),
                                        FailedIds(fault, "get_order"),
                                        FailedIds(fault, "cancel_order"))
        data == IF checked.raised THEN checked
                ELSE fetch_market_data(checked, At(fault, "get_klines"))
        signals == IF data.raised THEN data
                   ELSE get_current_signal_prices(data, At(fault, "get_current_signal_prices"))
        base == IF signals.raised THEN signals
                ELSE get_balance(signals, FALSE, tm, live_base, At(fault, "balance_base"))
        quote == IF base.raised THEN base
                 ELSE get_balance(base, TRUE, tm, live_quote, At(fault, "balance_quote"))
        sold == IF quote.raised THEN quote
                ELSE run_sell(quote, tm, t, has_sell, sell_price, base.val,
                              live_base, fault)
        bought == IF sold.raised THEN sold
                  ELSE run_buy(sold, tm, t, has_buy, buy_price, quote.val,
                               live_quote, fault)
    IN [bought EXCEPT !.ret = RetNone]

(* run(): every exception that reaches it is logged and raised again, so   *)
(* the first step that raises ends the cycle.  (has_buy, buy_price) and    *)
(* (has_sell, sell_price) are what the strategy answered; live_quote and   *)
(* live_base are the account's balances on the exchange.                   *)
run(m, tm, t, current_price, has_buy, buy_price, has_sell, sell_price, live_quote, live_base, fault) ==
    LET checked == check_pending_orders(m, tm, t, current_price,
                                        At(fault, "get_symbol_ticker"),
                                        FailedIds(fault, "get_order"),
                                        FailedIds(fault, "cancel_order"))
        data == IF checked.raised THEN checked
                ELSE fetch_market_data(checked, At(fault, "get_klines"))
        signals == IF data.raised THEN data
                   ELSE get_current_signal_prices(data, At(fault, "get_current_signal_prices"))
        base == IF signals.raised THEN signals
                ELSE get_balance(signals, FALSE, tm, live_base, At(fault, "balance_base"))
        quote == IF base.raised THEN base
                 ELSE get_balance(base, TRUE, tm, live_quote, At(fault, "balance_quote"))
        bought == IF quote.raised THEN quote
                  ELSE run_buy(quote, tm, t, has_buy, buy_price, quote.val,
                               live_quote, fault)
        sold == IF bought.raised THEN bought
                ELSE run_sell(bought, tm, t, has_sell, sell_price, base.val,
                              live_base, fault)
    IN [sold EXCEPT !.ret = RetNone]

----------------------------------------------------------------------------
(* The state machine                                                       *)

Idle == lastOp = "idle"

(* The state a method call starts from. *)
Start ==
    [pending |-> pending_orders, position |-> position, ex |-> exchange,
     nextId |-> nextId, any_filled |-> FALSE, calls |-> <<>>, placed |-> <<>>,
     writes |-> <<>>,
     raised |-> FALSE, ret |-> RetNone, val |-> 0]

(* Every client call of the log answered. *)
AllOk(log) == \A i \in DOMAIN log : log[i].ok

NoPrev == [op |-> "idle", writes |-> <<>>, allOk |-> TRUE]

NoInputs == [op |-> "idle"]

(* run() is called from one loop, one cycle after the other: no cycle is   *)
(* ever in progress next to the call being made.                           *)
NoCycles == [c \in {} |-> c]

(* No strategy is building a frame: the agent asks it for trigger prices.  *)
NoSignals == [strategy |-> "none"]

(* No TradingAgent has been constructed; no fetch_ohlcv call is running. *)
NoAgent == [window_size |-> 0]

NoPaging == [pc |-> "none"]

(* The state a method call leaves: r is what its operator computed from    *)
(* what the method was given.                                              *)
Finish(op, r, given) ==
    \E done \in {r} :
        /\ done.nextId <= MaxOrders + 1
        /\ position' = done.position
        /\ pending_orders' = done.pending
        /\ exchange' = done.ex
        /\ nextId' = done.nextId
        /\ lastOp' = op
        /\ calls' = done.calls
        /\ placed' = done.placed
        /\ inputs' = given
        /\ writes' = done.writes
        /\ raised' = done.raised
        /\ ret' = done.ret
        /\ prev' = [op |-> lastOp, writes |-> writes, allOk |-> AllOk(calls)]
        /\ UNCHANGED <<test_mode, now, lastPrice, cycles, strategy_signals, simulated, paging>>

Init ==
    /\ test_mode \in BOOLEAN
    /\ position = None
    /\ pending_orders = EmptyMap
    /\ exchange = EmptyMap
    /\ nextId = 1
    /\ now = 0
    /\ lastPrice \in LastPrices
    /\ lastOp = "idle"
    /\ calls = <<>>
    /\ placed = <<>>
    /\ inputs = NoInputs
    /\ writes = <<>>
    /\ raised = FALSE
    /\ ret = RetNone
    /\ prev = NoPrev
    /\ cycles = NoCycles
    /\ strategy_signals = NoSignals
    /\ simulated = NoAgent
    /\ paging = NoPaging

(* The balance get_balance answers when its client call, if any, answers. *)
balance_read(is_quote, live_balance) ==
    get_balance(Start, is_quote, test_mode, live_balance, FALSE).val

(* The tracked orders that a pass starting now finds older than the        *)
(* timeout and more than 10% away from the last price.                     *)
stale_orders ==
    {order_id \in DOMAIN pending_orders :
        /\ timed_out(pending_orders[order_id].timestamp, now)
        /\ price_moved(lastPrice, pending_orders[order_id].price)}

(* check_pending_orders(), called by itself: when idle, and also right     *)
(* after a pass or a submission.                                           *)
CheckPendingOrders ==
    /\ lastOp \in {"idle", "check_pending_orders", "place_limit_order"}
    /\ \E fault \in Faults({"get_symbol_ticker"}, DOMAIN pending_orders) :
        Finish("check_pending_orders",
               check_pending_orders(Start, test_mode, now, lastPrice,
                                    At(fault, "get_symbol_ticker"),
                                    FailedIds(fault, "get_order"),
                                    FailedIds(fault, "cancel_order")),
               [op |-> "check_pending_orders", stale |-> stale_orders])

GetBalance ==
    /\ Idle
    /\ \E is_quote \in BOOLEAN,
          live_balance \in LiveQuoteBalances \cup LiveBaseBalances,
          fault \in Faults({"balance"}, {}) :
        /\ live_balance \in (IF is_quote THEN LiveQuoteBalances ELSE LiveBaseBalances)
        /\ LET r == get_balance(Start, is_quote, test_mode, live_balance,
                                At(fault, "balance"))
           IN Finish("get_balance", [r EXCEPT !.ret = RetNumber(r.raised, r.val)],
                     [op |-> "get_balance", is_quote |-> is_quote,
                      balance |-> balance_read(is_quote, live_balance)])

CalculateQuantity ==
    /\ Idle
    /\ \E is_buy \in BOOLEAN, price \in PlacePrices,
          live_balance \in LiveQuoteBalances \cup LiveBaseBalances,
          fault \in Faults({"balance", "symbol_info"}, {}) :
        /\ live_balance \in (IF is_buy THEN LiveQuoteBalances ELSE LiveBaseBalances)
        /\ LET r == calculate_quantity(Start, price, is_buy, test_mode, live_balance,
                                       At(fault, "balance"), At(fault, "symbol_info"))
           IN Finish("calculate_quantity", [r EXCEPT !.ret = RetNumber(r.raised, r.val)],
                     [op |-> "calculate_quantity", price |-> price, is_buy |-> is_buy,
                      balance |-> balance_read(is_buy, live_balance)])

PlaceLimitOrder ==
    /\ Idle
    /\ \E side \in {SIDE_BUY, SIDE_SELL}, price \in PlacePrices \cup PlaceSellPrices,
          quantity \in PlaceQuantities, fault \in Faults({"create_order"}, {}) :
        /\ price \in (IF side = SIDE_BUY THEN PlacePrices ELSE PlaceSellPrices)
        /\ Finish("place_limit_order",
                  place_limit_order(Start, side, price, quantity, test_mode, now,
                                    At(fault, "create_order")),
                  [op |-> "place_limit_order", side |-> side, price |-> price,
                   quantity |-> quantity])

CancelPendingOrders ==
    /\ Idle
    /\ \E fault \in Faults({}, DOMAIN pending_orders) :
        /\ fault.site # "get_order"
        /\ Finish("cancel_pending_orders",
                  cancel_pending_orders(Start, test_mode,
                                        FailedIds(fault, "cancel_order")),
                  [op |-> "cancel_pending_orders"])

ExecuteTrade ==
    /\ Idle
    /\ \E signal \in {1, -1}, signal_price \in SignalPrices,
          live_balance \in LiveQuoteBalances \cup LiveBaseBalances,
          fault \in Faults({"balance", "symbol_info", "create_order"}, {}) :
        /\ live_balance \in (IF signal = 1 THEN LiveQuoteBalances ELSE LiveBaseBalances)
        /\ Finish("execute_trade",
                  execute_trade(Start, signal, signal_price, test_mode, now,
                                live_balance, At(fault, "balance"),
                                At(fault, "symbol_info"), At(fault, "create_order")),
                  [op |-> "execute_trade", signal |-> signal,
                   signal_price |-> signal_price,
                   balance |-> balance_read(signal = 1, live_balance)])

(* A fault is worth a step of its own only at a call the cycle can come    *)
(* to: a fault at a call that is never made is the cycle without fault.    *)
Reached(fault, has_buy, has_sell, quote_balance, base_balance) ==
    /\ fault.site = "get_symbol_ticker" => pending_orders # EmptyMap
    /\ fault.site \in {"balance_base", "balance_quote", "buy_balance", "sell_balance"}
          => ~test_mode
    /\ fault.site \in {"buy_balance", "buy_symbol_info", "buy_create_order"}
          => has_buy /\ quote_balance > 0
    /\ fault.site \in {"sell_balance", "sell_symbol_info", "sell_create_order"}
          => has_sell /\ base_balance > 0
    /\ fault.site \in {"buy_create_order", "sell_create_order"} => ~test_mode
    /\ fault.site = "cancel_order" =>
          fault.id \in stale_orders /\ exchange[fault.id].status # "FILLED"

Run ==
    /\ Idle
    /\ \E has_buy \in BOOLEAN, has_sell \in BOOLEAN,
          buy_price \in SignalPrices, sell_price \in SignalPrices,
          live_quote \in LiveQuoteBalances, live_base \in LiveBaseBalances,
          fault \in Faults(RunSites, DOMAIN pending_orders) :
        /\ Reached(fault, has_buy, has_sell, balance_read(TRUE, live_quote),
                   balance_read(FALSE, live_base))
        /\ Finish("run",
                  run(Start, test_mode, now, lastPrice, has_buy, buy_price,
                      has_sell, sell_price, live_quote, live_base, fault),
                  [op |-> "run", has_buy |-> has_buy, buy_price |-> buy_price,
                   has_sell |-> has_sell, sell_price |-> sell_price,
                   quote_balance |-> balance_read(TRUE, live_quote),
                   base_balance |-> balance_read(FALSE, live_base)])

(* The caller moves on: what the last call did is no longer looked at. *)
Return ==
    /\ ~Idle
    /\ lastOp' = "idle"
    /\ calls' = <<>>
    /\ placed' = <<>>
    /\ inputs' = NoInputs
    /\ writes' = <<>>
    /\ raised' = FALSE
    /\ ret' = RetNone
    /\ prev' = NoPrev
    /\ UNCHANGED <<test_mode, position, pending_orders, exchange, nextId, now, lastPrice,
                   cycles, strategy_signals, simulated, paging>>

(* The exchange and the world, between the agent's calls. *)
Quiet ==
    /\ Idle
    /\ UNCHANGED <<test_mode, position, pending_orders, nextId,
                   lastOp, calls, placed, inputs, writes, raised, ret, prev,
                   cycles, strategy_signals, simulated, paging>>

(* An open order is matched in full. *)
ExchangeFill ==
    \E order_id \in DOMAIN exchange :
        /\ exchange[order_id].status = "NEW"
        /\ exchange' = [exchange EXCEPT ![order_id].status = "FILLED",
                                        ![order_id].executedQty = exchange[order_id].origQty]
        /\ Quiet
        /\ UNCHANGED <<now, lastPrice>>

(* An open order ends without a fill: cancelled from another session, or   *)
(* expired by the exchange.                                                *)
ExchangeEnd ==
    \E order_id \in DOMAIN exchange, status \in EndStatuses :
        /\ exchange[order_id].status = "NEW"
        /\ exchange' = [exchange EXCEPT ![order_id].status = status]
        /\ Quiet
        /\ UNCHANGED <<now, lastPrice>>

PriceMove ==
    \E price \in LastPrices :
        /\ price # lastPrice
        /\ lastPrice' = price
        /\ Quiet
        /\ UNCHANGED <<exchange, now>>

(* The clock, looked at when order_timeout has passed since the start and  *)
(* second by second after that.                                            *)
Advance ==
    /\ now' = (IF now < order_timeout THEN order_timeout ELSE now + 1)
    /\ now' <= MaxTime
    /\ Quiet
    /\ UNCHANGED <<exchange, lastPrice>>

Next ==
    \/ CheckPendingOrders
    \/ GetBalance
    \/ CalculateQuantity
    \/ PlaceLimitOrder
    \/ CancelPendingOrders
    \/ ExecuteTrade
    \/ Run
    \/ Return
    \/ ExchangeFill
    \/ ExchangeEnd
    \/ PriceMove
    \/ Advance

Spec == Init /\ [][Next]_vars

----------------------------------------------------------------------------
(* The sizing and pricing functions taken by themselves: a call of one of  *)
(* them with arguments drawn from the bounds above.                        *)

SizingInputs ==
    [op : {"calculate_quantity"}, balance : 0..MaxFnBalance, price : 1..MaxFnPrice,
     is_buy : BOOLEAN, step : 1..MaxFnStep, risk : FnRiskPcts]

(* signal_price counts SubTicks-ths of 10^-8. *)
PricingInputs ==
    [op : {"determine_order_price"}, signal_price : 1..MaxFnSignal,
     is_buy : BOOLEAN, buffer_pct : FnBufferPcts]

(* Prices in cents, quantities and steps in thousandths of a base unit,    *)
(* the quote balance in whole quote units.  A price in whole cents has two *)
(* decimals, so round(x, 8) leaves it as it is.                            *)
CentsPerQuote == 100

MilliPerBase == 1000

TradeInputs ==
    [op : {"execute_trade"}, signal : {1}, signal_price : FnTradeSignals,
     balance : FnTradeBalances, step : FnTradeSteps, buffer_pct : FnTradeBufferPcts]

FnInit ==
    /\ test_mode = TRUE
    /\ position = None
    /\ pending_orders = EmptyMap
    /\ exchange = EmptyMap
    /\ nextId = 1
    /\ now = 0
    /\ lastPrice \in LastPrices
    /\ lastOp = "idle"
    /\ calls = <<>>
    /\ placed = <<>>
    /\ inputs \in SizingInputs \cup PricingInputs \cup TradeInputs
    /\ writes = <<>>
    /\ raised = FALSE
    /\ ret = RetNone
    /\ prev = NoPrev
    /\ cycles = NoCycles
    /\ strategy_signals = NoSignals
    /\ simulated = NoAgent
    /\ paging = NoPaging

FnReturns(op, value, orders) ==
    /\ lastOp' = op
    /\ ret' = value
    /\ placed' = orders
    /\ UNCHANGED <<test_mode, position, pending_orders, exchange, nextId, now,
                   lastPrice, calls, inputs, writes, raised, prev, cycles, strategy_signals,
                   simulated, paging>>

SizeQuantity ==
    /\ Idle
    /\ inputs.op = "calculate_quantity"
    /\ FnReturns("calculate_quantity",
                 RetNumber(FALSE, quantity_on_step(inputs.balance, inputs.price,
                                                   inputs.is_buy, inputs.step,
                                                   inputs.risk)),
                 <<>>)

PriceOrder ==
    /\ Idle
    /\ inputs.op = "determine_order_price"
    /\ \E price \in order_price_outcomes(inputs.signal_price, inputs.is_buy,
                                          inputs.buffer_pct, SubTicks) :
          FnReturns("determine_order_price", RetNumber(FALSE, price), <<>>)

TradeValues ==
    /\ Idle
    /\ inputs.op = "execute_trade"
    /\ \E orders \in order_values(inputs.signal = 1,
                                    inputs.signal_price * CentsPerQuote,
                                    inputs.balance * CentsPerQuote * MilliPerBase,
                                    inputs.step, inputs.buffer_pct, risk_pct,
                                    (CentsPerQuote * MilliPerBase) \div 10000) :
          FnReturns("execute_trade", RetNone, orders)

FnNext ==
    \/ SizeQuantity
    \/ PriceOrder
    \/ TradeValues

FnSpec == FnInit /\ [][FnNext]_vars

----------------------------------------------------------------------------
(* Overlapping cycles.  run() called on the same agent from two threads:   *)
(* a second call starts while a client call of the first is still blocked. *)
(* The code holds no lock, so a thread runs from one client call to the    *)
(* next and the other thread may run while the call is out.  Each action   *)
(* is the code of check_pending_orders between two client calls; what run() *)
(* does after it is one step.  Live mode: test mode tracks no order.       *)

Cycles == {"first", "second"}

(* A thread outside run(): the locals of check_pending_orders, and the     *)
(* order ids whose fill the thread has assigned to position (applied) and   *)
(* which it has deleted from pending_orders (removed).                     *)
NotRunning ==
    [pc |-> "idle", ids |-> <<>>, any_filled |-> FALSE, current_price |-> 0,
     applied |-> {}, removed |-> {}]

OverlapInit ==
    /\ test_mode = FALSE
    /\ position = None
    /\ pending_orders = EmptyMap
    /\ exchange = EmptyMap
    /\ nextId = 1
    /\ now = 0
    /\ lastPrice \in LastPrices
    /\ lastOp = "idle"
    /\ calls = <<>>
    /\ placed = <<>>
    /\ inputs = NoInputs
    /\ writes = <<>>
    /\ raised = FALSE
    /\ ret = RetNone
    /\ prev = NoPrev
    /\ cycles = [c \in Cycles |-> NotRunning]
    /\ strategy_signals = NoSignals
    /\ simulated = NoAgent
    /\ paging = NoPaging

(* The for loop moves to its next order id, or the method returns. *)
next_order(cycle) ==
    [cycle EXCEPT !.ids = Tail(@),
                  !.pc = IF Tail(cycle.ids) = <<>> THEN "returned" ELSE "get_order"]

(* del self.pending_orders[order_id] by a thread: a KeyError when another  *)
(* thread has deleted the entry, which the loop's handler logs.            *)
delete_entry(cycle, order_id) ==
    IF order_id \in DOMAIN pending_orders
    THEN [cycle EXCEPT !.removed = @ \cup {order_id}]
    ELSE cycle

CycleStep(c, cycle, new_position, new_pending, new_exchange, new_id) ==
    /\ new_id <= MaxOrders + 1
    /\ cycles' = [cycles EXCEPT ![c] = cycle]
    /\ position' = new_position
    /\ pending_orders' = new_pending
    /\ exchange' = new_exchange
    /\ nextId' = new_id
    /\ UNCHANGED <<test_mode, now, lastPrice, lastOp, calls, placed, inputs,
                   writes, raised, ret, prev, strategy_signals, simulated, paging>>

(* run() is entered: check_pending_orders returns False on an empty        *)
(* registry, else it calls get_symbol_ticker.                              *)
CycleBegins(c) ==
    /\ cycles[c].pc = "idle"
    /\ CycleStep(c, [cycles[c] EXCEPT
                        !.pc = IF DOMAIN pending_orders = {}
                               THEN "returned" ELSE "get_symbol_ticker",
                        !.any_filled = FALSE],
                 position, pending_orders, exchange, nextId)

(* get_symbol_ticker answers: the thread takes list(pending_orders.keys()) *)
(* as it is now and enters the loop; or the call raises and run() ends.    *)
TickerAnswers(c) ==
    /\ cycles[c].pc = "get_symbol_ticker"
    /\ \E fails \in BOOLEAN :
        LET ids == SortedSeq(DOMAIN pending_orders)
        IN CycleStep(c,
                     IF fails
                     THEN [cycles[c] EXCEPT !.pc = "idle"]
                     ELSE [cycles[c] EXCEPT
                              !.current_price = lastPrice,
                              !.ids = ids,
                              !.pc = IF ids = <<>> THEN "returned" ELSE "get_order"],
                     position, pending_orders, exchange, nextId)

(* get_order answers for the loop's order id: the FILLED branch assigns    *)
(* position and then deletes the entry; the other branch reads the entry   *)
(* (a KeyError when it is gone) and goes on to cancel_order when the order *)
(* is stale.                                                               *)
OrderAnswers(c) ==
    /\ cycles[c].pc = "get_order"
    /\ \E fails \in BOOLEAN :
        LET order_id == Head(cycles[c].ids)
            order_info == get_order(exchange, order_id)
        IN IF fails
           THEN CycleStep(c, next_order(cycles[c]),
                          position, pending_orders, exchange, nextId)
           ELSE IF order_info.status = "FILLED"
           THEN CycleStep(c,
                          next_order([delete_entry(cycles[c], order_id) EXCEPT
                                         !.any_filled = TRUE,
                                         !.applied = @ \cup {order_id}]),
                          position_after_fill(order_info),
                          Drop(pending_orders, order_id), exchange, nextId)
           ELSE IF order_id \notin DOMAIN pending_orders
           THEN CycleStep(c, next_order(cycles[c]),
                          position, pending_orders, exchange, nextId)
           ELSE IF /\ timed_out(pending_orders[order_id].timestamp, now)
                   /\ price_moved(cycles[c].current_price, pending_orders[order_id].price)
           THEN CycleStep(c, [cycles[c] EXCEPT !.pc = "cancel_order"],
                          position, pending_orders, exchange, nextId)
           ELSE CycleStep(c, next_order(cycles[c]),
                          position, pending_orders, exchange, nextId)

(* cancel_order answers for the stale order: the entry is deleted when the *)
(* call returned.                                                          *)
CancelAnswers(c) ==
    /\ cycles[c].pc = "cancel_order"
    /\ \E fails \in BOOLEAN :
        LET order_id == Head(cycles[c].ids)
        IN IF cancel_order_ok(exchange, order_id, IF fails THEN {order_id} ELSE {})
           THEN CycleStep(c, next_order(delete_entry(cycles[c], order_id)),
                          position, Drop(pending_orders, order_id),
                          cancel_order(exchange, order_id), nextId)
           ELSE CycleStep(c, next_order(cycles[c]),
                          position, pending_orders, exchange, nextId)

(* The rest of run() after check_pending_orders has returned: no order, or *)
(* an order submitted and tracked by place_limit_order.                    *)
CycleEnds(c) ==
    /\ cycles[c].pc = "returned"
    /\ \/ CycleStep(c, [cycles[c] EXCEPT !.pc = "idle", !.ids = <<>>],
                    position, pending_orders, exchange, nextId)
       \/ \E side \in {SIDE_BUY, SIDE_SELL}, price \in PlacePrices,
             quantity \in PlaceQuantities :
            LET order == place_limit_order(Start, side, price, quantity,
                                           test_mode, now, FALSE)
            IN CycleStep(c, [cycles[c] EXCEPT !.pc = "idle", !.ids = <<>>],
                         position, order.pending, order.ex, order.nextId)

OverlapNext ==
    \/ \E c \in Cycles : CycleBegins(c)
    \/ \E c \in Cycles : TickerAnswers(c)
    \/ \E c \in Cycles : OrderAnswers(c)
    \/ \E c \in Cycles : CancelAnswers(c)
    \/ \E c \in Cycles : CycleEnds(c)
    \/ ExchangeFill
    \/ ExchangeEnd
    \/ PriceMove
    \/ Advance

OverlapSpec == OverlapInit /\ [][OverlapNext]_vars

----------------------------------------------------------------------------
(* The strategies (src/strategies): generate_signals of VWAPReversion,     *)
(* MultiTimeframeMomentum and ATRTrailingBreakout, each called on a frame   *)
(* of at most MaxBars bars.  The indicators (rolling sums, RSI, MACD, ATR,  *)
(* rolling extremes) are the library's, so a bar carries their values as   *)
(* given; prices are whole numbers, thresholds keep the code's ratios.     *)

MaxBars == 3

(* np.nan: every comparison with it is False, arithmetic on it gives it. *)
NaN == -1000

lt(a, b) == a # NaN /\ b # NaN /\ a < b

gt(a, b) == a # NaN /\ b # NaN /\ a > b

plus(a, b) == IF a = NaN \/ b = NaN THEN NaN ELSE a + b

minus(a, b) == IF a = NaN \/ b = NaN THEN NaN ELSE a - b

times(a, k) == IF a = NaN THEN NaN ELSE a * k

absolute(a) == IF a = NaN THEN NaN ELSE Abs(a)

(* Python's max(a, b) and min(a, b): a unless b compares beyond it. *)
py_max(a, b) == IF gt(b, a) THEN b ELSE a

py_min(a, b) == IF lt(b, a) THEN b ELSE a

(* Strategy parameters: thresholds of VWAPReversion in thousandths, the    *)
(* RSI levels of MultiTimeframeMomentum, ATRTrailingBreakout's multiplier  *)
(* and its min_breakout in hundredths.                                     *)
deviation_threshold == 20
exit_threshold == 5
rsi_oversold == 30
rsi_overbought == 70
atr_multiplier == 2
min_breakout == 1

(* The bars a frame is made of, by strategy. *)
VwapBars ==
    [bid : {970, 1000, 1030}, ask : {1000, 1030}, vwap : {NaN, 1000}]

MomentumBars == [rsi : {NaN, 20, 50, 80}, macd_signal : {NaN, -1, 0, 1}]

AtrBars ==
    {bar \in [close : {6, 10, 14, 20}, atr : {NaN, 1, 8}, rolling_high : {NaN, 12, 14},
              rolling_low : {NaN, 8}] :
        bar.rolling_high = NaN <=> bar.rolling_low = NaN}

Frames(Bars) == UNION {[1..n -> Bars] : n \in 1..MaxBars}

(* A generate_signals call as it starts.  has_quotes: the frame has the    *)
(* bid and ask columns next to open, high, low, close, volume.             *)
Called(strategy, has_quotes, bars) ==
    [strategy |-> strategy, pc |-> "called", has_quotes |-> has_quotes,
     bars |-> bars, i |-> 0, in_long |-> FALSE, in_short |-> FALSE,
     position |-> <<>>, stop_loss |-> <<>>, take_profit |-> <<>>]

StrategyInit ==
    /\ test_mode = TRUE
    /\ position = None
    /\ pending_orders = EmptyMap
    /\ exchange = EmptyMap
    /\ nextId = 1
    /\ now = 0
    /\ lastPrice \in LastPrices
    /\ lastOp = "idle"
    /\ calls = <<>>
    /\ placed = <<>>
    /\ inputs = NoInputs
    /\ writes = <<>>
    /\ raised = FALSE
    /\ ret = RetNone
    /\ prev = NoPrev
    /\ cycles = NoCycles
    /\ simulated = NoAgent
    /\ paging = NoPaging
    /\ strategy_signals \in
          {Called("VWAPReversion", q, b) : q \in BOOLEAN, b \in Frames(VwapBars)}
          \cup {Called("MultiTimeframeMomentum", FALSE, b) : b \in Frames(MomentumBars)}
          \cup {Called("ATRTrailingBreakout", FALSE, b) : b \in Frames(AtrBars)}

StrategyStep(s) ==
    /\ strategy_signals' = s
    /\ UNCHANGED <<test_mode, position, pending_orders, exchange, nextId, now,
                   lastPrice, lastOp, calls, placed, inputs, writes, raised, ret,
                   prev, cycles, simulated, paging>>

(* VWAPReversion.generate_signals, row by row: the two entries, then the   *)
(* two exits, each a .loc assignment over the rows its condition selects.  *)
vwap_position(bar) ==
    LET buy_deviation == times(minus(bar.bid, bar.vwap), 1000)
        sell_deviation == times(minus(bar.ask, bar.vwap), 1000)
        entered == IF lt(buy_deviation, times(bar.vwap, 0 - deviation_threshold))
                   THEN 1 ELSE 0
        either == IF gt(sell_deviation, times(bar.vwap, deviation_threshold))
                  THEN -1 ELSE entered
        long_exit_condition == lt(absolute(sell_deviation), times(bar.vwap, exit_threshold))
        short_exit_condition == lt(absolute(buy_deviation), times(bar.vwap, exit_threshold))
        no_long == IF long_exit_condition /\ either = 1 THEN 0 ELSE either
    IN IF short_exit_condition /\ no_long = -1 THEN 0 ELSE no_long

(* self.price_data['bid'] raises KeyError on a frame without the column. *)
VwapGenerate ==
    /\ strategy_signals.strategy = "VWAPReversion"
    /\ strategy_signals.pc = "called"
    /\ StrategyStep(
          IF ~strategy_signals.has_quotes
          THEN [strategy_signals EXCEPT !.pc = "raised"]
          ELSE [strategy_signals EXCEPT
                   !.pc = "returned",
                   !.position = [k \in DOMAIN strategy_signals.bars |->
                                    vwap_position(strategy_signals.bars[k])]])

(* MultiTimeframeMomentum.generate_signals, row by row. *)
momentum_position(bar) ==
    LET bought == IF lt(bar.rsi, rsi_oversold) /\ gt(bar.macd_signal, 0)
                  THEN 1 ELSE 0
    IN IF gt(bar.rsi, rsi_overbought) /\ lt(bar.macd_signal, 0) THEN -1 ELSE bought

MomentumGenerate ==
    /\ strategy_signals.strategy = "MultiTimeframeMomentum"
    /\ strategy_signals.pc = "called"
    /\ StrategyStep([strategy_signals EXCEPT
                        !.pc = "returned",
                        !.position = [k \in DOMAIN strategy_signals.bars |->
                                         momentum_position(strategy_signals.bars[k])]])

(* ATRTrailingBreakout.generate_signals up to its loop: the frame of zeros *)
(* and NaNs; range(1, len(signals)) leaves the first row out.              *)
AtrEnter ==
    /\ strategy_signals.strategy = "ATRTrailingBreakout"
    /\ strategy_signals.pc = "called"
    /\ LET n == Len(strategy_signals.bars)
       IN StrategyStep([strategy_signals EXCEPT
                           !.pc = IF n > 1 THEN "loop" ELSE "returned",
                           !.i = 2,
                           !.position = [k \in 1..n |-> 0],
                           !.stop_loss = [k \in 1..n |-> NaN],
                           !.take_profit = [k \in 1..n |-> NaN]])

breakout_up(bar) == gt(bar.close * 100, times(bar.rolling_high, 100 + min_breakout))

breakout_down(bar) == lt(bar.close * 100, times(bar.rolling_low, 100 - min_breakout))

(* The first half of the loop body: exit on stop or take-profit, or hold   *)
(* and trail the stop.                                                     *)
atr_exit_or_hold(s) ==
    LET i == s.i
        close == s.bars[i].close
        reach == times(s.bars[i].atr, atr_multiplier)
    IN IF s.in_long
       THEN IF lt(close, s.stop_loss[i - 1]) \/ gt(close, s.take_profit[i - 1])
            THEN [s EXCEPT !.position[i] = 0, !.in_long = FALSE]
            ELSE [s EXCEPT !.position[i] = 1,
                           !.stop_loss[i] = py_max(s.stop_loss[i - 1], minus(close, reach)),
                           !.take_profit[i] = plus(close, times(reach, 2))]
       ELSE IF s.in_short
       THEN IF gt(close, s.stop_loss[i - 1]) \/ lt(close, s.take_profit[i - 1])
            THEN [s EXCEPT !.position[i] = 0, !.in_short = FALSE]
            ELSE [s EXCEPT !.position[i] = -1,
                           !.stop_loss[i] = py_min(s.stop_loss[i - 1], plus(close, reach)),
                           !.take_profit[i] = minus(close, times(reach, 2))]
       ELSE s

(* The second half: entry on a breakout when no position is held, also on  *)
(* the bar that has just been exited.                                      *)
atr_entry(s) ==
    LET i == s.i
        close == s.bars[i].close
        reach == times(s.bars[i].atr, atr_multiplier)
    IN IF s.in_long \/ s.in_short
       THEN s
       ELSE IF breakout_up(s.bars[i])
       THEN [s EXCEPT !.position[i] = 1,
                      !.stop_loss[i] = minus(close, reach),
                      !.take_profit[i] = plus(close, times(reach, 2)),
                      !.in_long = TRUE]
       ELSE IF breakout_down(s.bars[i])
       THEN [s EXCEPT !.position[i] = -1,
                      !.stop_loss[i] = plus(close, reach),
                      !.take_profit[i] = minus(close, times(reach, 2)),
                      !.in_short = TRUE]
       ELSE s

(* One iteration of the loop. *)
AtrIteration ==
    /\ strategy_signals.strategy = "ATRTrailingBreakout"
    /\ strategy_signals.pc = "loop"
    /\ LET done == atr_entry(atr_exit_or_hold(strategy_signals))
       IN StrategyStep([done EXCEPT
                           !.i = @ + 1,
                           !.pc = IF done.i = Len(done.bars) THEN "returned" ELSE "loop"])

StrategyNext ==
    \/ VwapGenerate
    \/ MomentumGenerate
    \/ AtrEnter
    \/ AtrIteration

StrategySpec == StrategyInit /\ [][StrategyNext]_vars

----------------------------------------------------------------------------
(* The market-order agent of src/agent/binance.py (its own TradingAgent):  *)
(* no registry, a market order is taken as filled when create_order        *)
(* returns.  Its grid: a quantity counts lots of one base unit, a quote    *)
(* balance counts 10^-4 quote, a price is in 10^-4 quote per lot.  placed   *)
(* records the execute_trade calls of run(), calls the client and strategy *)
(* calls.                                                                  *)

MarketPrices == {5, 20}
MarketQuantities == {0, 2}
MarketRiskPcts == {1}
MarketQuoteBalances == {0, 2000}
MarketBaseBalances == {0, 300}

(* Test mode's balances: balance = 0.1 (quote), balance = 1000 (base). *)
market_test_quote == 1000
market_test_base == 1000

(* client.create_order(type=ORDER_TYPE_MARKET): booked and matched. *)
create_market_order(ex, order_id, side, price, quantity) ==
    Put(ex, order_id,
        [status |-> "FILLED", side |-> side, price |-> price,
         origQty |-> quantity, executedQty |-> quantity])

(* Slip: the test-mode return left out. *)
market_execute_trade_always_live(m, signal, price, quantity, tm, createFails) ==
    LET side == IF signal = 1 THEN SIDE_BUY ELSE SIDE_SELL
        called == [m EXCEPT !.placed = Append(@, Placing(side, price, quantity, Len(m.calls)))]
    IN IF signal \notin {1, -1}
       THEN [called EXCEPT !.ret = RetNone]
       ELSE IF createFails
       THEN [called EXCEPT !.calls = Append(@, Call("create_order", NoOrder, FALSE)),
                           !.raised = TRUE]
       ELSE [called EXCEPT
                !.calls = Append(@, Call("create_order", m.nextId, TRUE)),
                !.ex = create_market_order(@, m.nextId, side, price, quantity),
                !.nextId = @ + 1,
                !.position = IF signal = 1
                             THEN [side |-> "long", entry_price |-> price,
                                   quantity |-> quantity, asset |-> "base"]
                             ELSE None,
                !.ret = RetOrder(m.nextId, side, price, quantity)]

(* Slip: self.position assigned before create_order is called. *)
market_execute_trade_position_first(m, signal, price, quantity, tm, createFails) ==
    LET side == IF signal = 1 THEN SIDE_BUY ELSE SIDE_SELL
        called == [m EXCEPT !.placed = Append(@, Placing(side, price, quantity, Len(m.calls)))]
        held == IF signal = 1
                THEN [side |-> "long", entry_price |-> price,
                      quantity |-> quantity, asset |-> "base"]
                ELSE None
    IN IF tm \/ signal \notin {1, -1}
       THEN [called EXCEPT !.ret = RetNone]
       ELSE IF createFails
       THEN [called EXCEPT !.calls = Append(@, Call("create_order", NoOrder, FALSE)),
                           !.position = held,
                           !.raised = TRUE]
       ELSE [called EXCEPT
                !.calls = Append(@, Call("create_order", m.nextId, TRUE)),
                !.ex = create_market_order(@, m.nextId, side, price, quantity),
                !.nextId = @ + 1,
                !.position = held,
                !.ret = RetOrder(m.nextId, side, price, quantity)]

(* binance.TradingAgent.execute_trade: test mode logs and returns None;    *)
(* live, signal 1 buys at market and sets the Long, signal -1 sells and    *)
(* sets None, any other signal falls through; a failure is raised again.   *)
market_execute_trade(m, signal, price, quantity, tm, createFails) ==
    LET side == IF signal = 1 THEN SIDE_BUY ELSE SIDE_SELL
        called == [m EXCEPT !.placed = Append(@, Placing(side, price, quantity, Len(m.calls)))]
    IN IF tm \/ signal \notin {1, -1}
       THEN [called EXCEPT !.ret = RetNone]
       ELSE IF createFails
       THEN [called EXCEPT !.calls = Append(@, Call("create_order", NoOrder, FALSE)),
                           !.raised = TRUE]
       ELSE [called EXCEPT
                !.calls = Append(@, Call("create_order", m.nextId, TRUE)),
                !.ex = create_market_order(@, m.nextId, side, price, quantity),
                !.nextId = @ + 1,
                !.position = IF signal = 1
                             THEN [side |-> "long", entry_price |-> price,
                                   quantity |-> quantity, asset |-> "base"]
                             ELSE None,
                !.ret = RetOrder(m.nextId, side, price, quantity)]

(* binance.TradingAgent.calculate_quantity: the balance (fixed in test     *)
(* mode), get_symbol_info in every mode, the size rounded down to the      *)
(* step, and live the cap min(quantity, max_possible), which a risk of at  *)
(* most 100% never lowers.                                                 *)
market_calculate_quantity(m, signal, price, risk, tm, live_balance, balanceFails, infoFails) ==
    LET b == IF tm
             THEN [m EXCEPT !.val = IF signal = 1 THEN market_test_quote
                                                  ELSE market_test_base]
             ELSE IF balanceFails
             THEN [m EXCEPT !.calls = Append(@, Call("get_asset_balance", NoOrder, FALSE)),
                            !.raised = TRUE]
             ELSE [m EXCEPT !.calls = Append(@, Call("get_asset_balance", NoOrder, TRUE)),
                            !.val = live_balance]
        quantity == quantity_on_step(b.val, price, signal = 1, 1, risk)
        max_possible == IF signal = 1 THEN b.val \div price ELSE b.val
    IN IF b.raised THEN b
       ELSE IF infoFails
       THEN [b EXCEPT !.calls = Append(@, Call("get_symbol_info", NoOrder, FALSE)),
                      !.raised = TRUE]
       ELSE [b EXCEPT !.calls = Append(@, Call("get_symbol_info", NoOrder, TRUE)),
                      !.val = IF tm \/ quantity <= max_possible
                              THEN quantity ELSE max_possible]

(* self.strategy.generate_signals(): the strategy answers or raises. *)
generate_signals(m, fails) ==
    IF fails
    THEN [m EXCEPT !.calls = Append(@, Call("generate_signals", NoOrder, FALSE)),
                   !.raised = TRUE]
    ELSE [m EXCEPT !.calls = Append(@, Call("generate_signals", NoOrder, TRUE))]

(* Slip: the quantity <= 0 return left out. *)
market_run_unchecked_quantity(m, tm, latest_signal, current_price, risk, live_balance, fault) ==
    LET data == fetch_market_data(m, At(fault, "get_klines"))
        frame == IF data.raised THEN data
                 ELSE generate_signals(data, At(fault, "generate_signals"))
        sized == IF frame.raised \/ latest_signal = 0 THEN frame
                 ELSE market_calculate_quantity(frame, latest_signal, current_price,
                                                risk, tm, live_balance,
                                                At(fault, "balance"),
                                                At(fault, "symbol_info"))
        traded == IF sized.raised \/ latest_signal = 0 THEN sized
                  ELSE market_execute_trade(sized, latest_signal, current_price,
                                            sized.val, tm, At(fault, "create_order"))
    IN [traded EXCEPT !.ret = RetNone]

(* binance.TradingAgent.run: latest_signal is the last position the        *)
(* strategy gave, current_price the last close.                            *)
market_run(m, tm, latest_signal, current_price, risk, live_balance, fault) ==
    LET data == fetch_market_data(m, At(fault, "get_klines"))
        frame == IF data.raised THEN data
                 ELSE generate_signals(data, At(fault, "generate_signals"))
        sized == IF frame.raised \/ latest_signal = 0 THEN frame
                 ELSE market_calculate_quantity(frame, latest_signal, current_price,
                                                risk, tm, live_balance,
                                                At(fault, "balance"),
                                                At(fault, "symbol_info"))
        traded == IF sized.raised \/ latest_signal = 0 \/ sized.val <= 0 THEN sized
                  ELSE market_execute_trade(sized, latest_signal, current_price,
                                            sized.val, tm, At(fault, "create_order"))
    IN [traded EXCEPT !.ret = RetNone]

MarketInit == Init

MarketExecuteTrade ==
    /\ Idle
    /\ \E signal \in {-1, 0, 1}, price \in MarketPrices, quantity \in MarketQuantities,
          fault \in Faults({"create_order"}, {}) :
        /\ At(fault, "create_order") => ~test_mode /\ signal # 0
        /\ Finish("execute_trade",
                  market_execute_trade(Start, signal, price, quantity, test_mode,
                                       At(fault, "create_order")),
                  [op |-> "execute_trade", signal |-> signal, price |-> price,
                   quantity |-> quantity])

MarketCalculateQuantity ==
    /\ Idle
    /\ \E signal \in {-1, 1}, price \in MarketPrices, risk \in MarketRiskPcts,
          live_balance \in MarketQuoteBalances \cup MarketBaseBalances,
          fault \in Faults({"balance", "symbol_info"}, {}) :
        /\ live_balance \in (IF signal = 1 THEN MarketQuoteBalances ELSE MarketBaseBalances)
        /\ At(fault, "balance") => ~test_mode
        /\ LET r == market_calculate_quantity(Start, signal, price, risk, test_mode,
                                              live_balance, At(fault, "balance"),
                                              At(fault, "symbol_info"))
           IN Finish("calculate_quantity", [r EXCEPT !.ret = RetNumber(r.raised, r.val)],
                     [op |-> "calculate_quantity", signal |-> signal, price |-> price,
                      risk |-> risk])

(* run(), cycle after cycle. *)
MarketRun ==
    /\ lastOp \in {"idle", "run"}
    /\ \E latest_signal \in {-1, 0, 1}, current_price \in MarketPrices,
          risk \in MarketRiskPcts,
          live_balance \in MarketQuoteBalances \cup MarketBaseBalances,
          fault \in Faults({"get_klines", "generate_signals", "balance",
                            "symbol_info", "create_order"}, {}) :
        /\ live_balance \in (IF latest_signal = 1 THEN MarketQuoteBalances
                                                  ELSE MarketBaseBalances)
        /\ fault.site \in {"balance", "create_order"} => ~test_mode
        /\ fault.site \in {"balance", "symbol_info", "create_order"} => latest_signal # 0
        /\ Finish("run",
                  market_run(Start, test_mode, latest_signal, current_price, risk,
                             live_balance, fault),
                  [op |-> "run", latest_signal |-> latest_signal,
                   current_price |-> current_price, risk |-> risk,
                   balance |-> IF ~test_mode THEN live_balance
                               ELSE IF latest_signal = 1 THEN market_test_quote
                               ELSE market_test_base])

MarketNext ==
    \/ MarketExecuteTrade
    \/ MarketCalculateQuantity
    \/ MarketRun
    \/ Return

MarketSpec == MarketInit /\ [][MarketNext]_vars

----------------------------------------------------------------------------
(* Vocabulary of the claims                                                *)

Pass == "check_pending_orders"

(* The log holds a call of fn about order_id that answered / that failed. *)
Answered(log, fn, order_id) ==
    \E i \in DOMAIN log : log[i] = Call(fn, order_id, TRUE)

Failed(log, fn, order_id) ==
    \E i \in DOMAIN log : log[i] = Call(fn, order_id, FALSE)

Issued(log, fn, order_id) == Answered(log, fn, order_id) \/ Failed(log, fn, order_id)

Count(seq, x) == Cardinality({i \in DOMAIN seq : seq[i] = x})

Elems(seq) == {seq[i] : i \in DOMAIN seq}

(* The position the claims expect after the fill of exchange order o. *)
LongOf(o) ==
    [side |-> "long", entry_price |-> o.price, quantity |-> o.executedQty,
     asset |-> "base"]

Flat == [side |-> "flat"]

ExpectedAfter(o) == IF o.side = "BUY" THEN LongOf(o) ELSE Flat

(* Older than the timeout and drifted by more than 10%, both strictly. *)
IsStale(e, t, price) ==
    /\ t - e.timestamp > 300
    /\ Abs(price - e.price) * 10 > e.price

----------------------------------------------------------------------------
(* C1. After a reconciliation pass every order still in pending_orders has *)
(* exchange status New: an order whose status query in the pass answered a *)
(* terminal status (Filled, or Cancelled / expired on the exchange side)   *)
(* has been removed from pending_orders by the end of the pass.            *)
C1_TerminalStatusRemoved ==
    lastOp = Pass =>
        \A id \in DOMAIN pending_orders :
            Answered(calls, "get_order", id) => exchange[id].status = "NEW"

(* C2. In a reconciliation pass, every tracked order the exchange reports  *)
(* Filled is removed from pending_orders and assigned to position exactly  *)
(* once; position ends as the last such fill leaves it: the Long record    *)
(* with the exchange's price and executed quantity for a Buy, Flat for a   *)
(* Sell.                                                                   *)
C2_FillApplied ==
    [][lastOp' = Pass =>
        /\ \A id \in DOMAIN pending_orders :
              (Answered(calls', "get_order", id) /\ exchange[id].status = "FILLED")
                  => /\ id \notin DOMAIN pending_orders'
                     /\ Count(writes', id) = 1
        /\ \A id \in Elems(writes') :
              /\ id \in DOMAIN pending_orders
              /\ exchange[id].status = "FILLED"
        /\ IF writes' = <<>>
           THEN position' = position
           ELSE position' = ExpectedAfter(exchange[writes'[Len(writes')]])]_vars

(* C2 happens: a pass has applied a Buy fill and a Sell fill. *)
C2_Witness ==
    /\ lastOp = Pass
    /\ Len(writes) = 2
    /\ \E i, j \in DOMAIN writes :
          exchange[writes[i]].side = "BUY" /\ exchange[writes[j]].side = "SELL"

(* C3. A fill is applied once: a pass run right after a pass assigns no    *)
(* fill the first one assigned and leaves those orders out of              *)
(* pending_orders; and when every client call of the first pass answered,  *)
(* the second leaves pending_orders and position as the first left them    *)
(* and assigns nothing.                                                    *)
C3_SecondPassIdle ==
    [][(lastOp = Pass /\ lastOp' = Pass) =>
        /\ \A id \in Elems(writes) :
              id \notin Elems(writes') /\ id \notin DOMAIN pending_orders'
        /\ (~raised /\ AllOk(calls)) =>
              /\ pending_orders' = pending_orders
              /\ position' = position
              /\ writes' = <<>>]_vars

(* C3 happens: a second pass in a row has run after one that applied a     *)
(* fill and left another order tracked.                                    *)
C3_Witness ==
    /\ lastOp = Pass
    /\ prev.op = Pass
    /\ prev.writes # <<>>
    /\ prev.allOk
    /\ pending_orders # EmptyMap
    /\ Issued(calls, "get_order", Min(DOMAIN pending_orders))

C6_SubmittedIsTracked ==
    (lastOp = "place_limit_order" /\ ~raised) =>
        /\ ret.tag = "order"
        /\ ret.orderId \in DOMAIN pending_orders
        /\ pending_orders[ret.orderId] =
              [side |-> ret.side, price |-> ret.price,
               quantity |-> ret.origQty, timestamp |-> now]

(* C7. In test mode the pass that follows a submission reports the order   *)
(* Filled: it returns True, assigns position from the order (Long for a    *)
(* Buy, Flat for a Sell) and leaves the order out of pending_orders.       *)
C7_SimulatedFillOnNextPass ==
    [][(test_mode /\ lastOp = "place_limit_order" /\ ~raised /\ lastOp' = Pass) =>
        /\ ret' = RetBool(TRUE)
        /\ writes' # <<>>
        /\ position' = (IF ret.side = "BUY"
                        THEN [side |-> "long", entry_price |-> ret.price,
                              quantity |-> ret.origQty, asset |-> "base"]
                        ELSE Flat)
        /\ ret.orderId \notin DOMAIN pending_orders']_vars

LifecycleOps ==
    {"get_balance", "calculate_quantity", "place_limit_order",
     "check_pending_orders", "cancel_pending_orders", "execute_trade"}

(* C8 as claimed. In test mode none of the order-lifecycle methods calls   *)
(* create_order, cancel_order, get_order, get_asset_balance,               *)
(* get_symbol_info or get_symbol_ticker on the client.                     *)
C8_NoClientCall ==
    (test_mode /\ lastOp \in LifecycleOps) =>
        \A i \in DOMAIN calls :
            calls[i].fn \notin {"create_order", "cancel_order", "get_order",
                                "get_asset_balance", "get_symbol_info",
                                "get_symbol_ticker"}

(* C8 as amended. In test mode none of the order-lifecycle methods calls   *)
(* create_order, cancel_order, get_order, get_asset_balance or             *)
(* get_symbol_ticker on the client; calculate_quantity, and execute_trade  *)
(* through it, does call get_symbol_info.                                  *)
C8_NoOrderOrAccountCall ==
    (test_mode /\ lastOp \in LifecycleOps) =>
        /\ \A i \in DOMAIN calls :
              calls[i].fn \notin {"create_order", "cancel_order", "get_order",
                                  "get_asset_balance", "get_symbol_ticker"}
        /\ lastOp \in {"calculate_quantity", "execute_trade"}
              => Issued(calls, "get_symbol_info", NoOrder)

(* C8 happens: execute_trade has run in test mode and submitted its order. *)
C8_Witness ==
    /\ test_mode
    /\ lastOp = "execute_trade"
    /\ ~raised
    /\ Answered(calls, "get_symbol_info", NoOrder)

PerOrderCalls == {"get_order", "cancel_order"}

C10_AbortKeepsPosition ==
    [][(lastOp' = "run" /\ raised') => position' = position]_vars

(* C10 as amended. When run() raises, position is what reconciliation left *)
(* at the start of that cycle: what it was at entry when no fill was       *)
(* applied, else what the last applied fill makes it; no later step of the *)
(* cycle changes it.                                                       *)
C10_AbortKeepsReconciledPosition ==
    [][(lastOp' = "run" /\ raised') =>
        IF writes' = <<>>
        THEN position' = position
        ELSE position' = ExpectedAfter(exchange[writes'[Len(writes')]])]_vars

(* C10 happens: a cycle has applied a fill and has then raised. *)
C10_Witness ==
    /\ lastOp = "run"
    /\ raised
    /\ writes # <<>>
    /\ position # Flat

(* C11. position is None after construction and only reconciliation       *)
(* assigns it: whenever position changes, the step is a reconciliation     *)
(* pass, alone or as the first step of run(), that applied a fill, and the *)
(* new position is what the last fill applied makes it; get_balance,       *)
(* calculate_quantity, place_limit_order, execute_trade (with the          *)
(* determine_order_price it calls) and cancel_pending_orders leave it as   *)
(* it is, and so does every later step of run().                           *)
C11_OnlyReconciliationAssigns ==
    /\ position = Flat
    /\ [][/\ position' # position
              => /\ lastOp' \in {Pass, "run"}
                 /\ writes' # <<>>
                 /\ position' = ExpectedAfter(exchange[writes'[Len(writes')]])
          /\ lastOp' \in (LifecycleOps \ {Pass}) => position' = position]_vars

(* C11 happens: execute_trade has submitted an order while a Long position *)
(* was held.                                                               *)
C11_Witness ==
    /\ lastOp = "execute_trade"
    /\ ~raised
    /\ placed # <<>>
    /\ position # Flat

(* C12. A reconciliation pass over an empty pending_orders returns False,  *)
(* does not raise, leaves pending_orders and position as they are and      *)
(* calls nothing: no ticker read, no status query, no cancel; the exchange *)
(* is left as it is.                                                       *)
C12_EmptyRegistryNoOp ==
    [][(lastOp' = Pass /\ pending_orders = EmptyMap) =>
        /\ ret' = RetBool(FALSE)
        /\ ~raised'
        /\ pending_orders' = EmptyMap
        /\ position' = position
        /\ calls' = <<>>
        /\ writes' = <<>>
        /\ exchange' = exchange]_vars

(* C12 happens: in live mode a pass has found pending_orders empty while a *)
(* Long position was held.                                                 *)
C12_Witness ==
    /\ ~test_mode
    /\ lastOp = Pass
    /\ calls = <<>>
    /\ pending_orders = EmptyMap
    /\ position # Flat

(* An order the exchange has booked and pending_orders does not hold has   *)
(* been removed from it: live, an order is tracked as it is booked.        *)
Removed == DOMAIN exchange \ DOMAIN pending_orders

(* C13. Removal is final.  An order leaves pending_orders only in a step   *)
(* that applied its fill or issued its cancel call; once removed it never  *)
(* enters pending_orders again (so it is removed once), and no later call  *)
(* issues a status query or a cancel call for it or assigns position from  *)
(* it.                                                                     *)
C13_RemovalIsFinal ==
    [][/\ \A id \in Removed :
              /\ id \notin DOMAIN pending_orders'
              /\ ~Issued(calls', "get_order", id)
              /\ ~Issued(calls', "cancel_order", id)
              /\ id \notin Elems(writes')
       /\ \A id \in DOMAIN pending_orders \ DOMAIN pending_orders' :
              /\ lastOp' \in {Pass, "run", "cancel_pending_orders"}
              /\ id \in Elems(writes') \/ Issued(calls', "cancel_order", id)
              /\ Count(writes', id) <= 1]_vars

(* C13 happens: a pass has queried a tracked order and has left alone an   *)
(* order removed before it.                                                *)
C13_Witness ==
    /\ lastOp = Pass
    /\ \E id \in DOMAIN exchange : Issued(calls, "get_order", id)
    /\ \E id \in Removed : ~Issued(calls, "get_order", id)

(* The step of run() a call belongs to: 1 reconciliation, 2 the market     *)
(* data, 3 the strategy's triggers, 4 balances, sizing and submission.     *)
StepOf(call) ==
    IF call.fn \in {"get_symbol_ticker", "get_order", "cancel_order"} THEN 1
    ELSE IF call.fn = "get_klines" THEN 2
    ELSE IF call.fn = "get_current_signal_prices" THEN 3
    ELSE 4

(* C14. run() works in the order reconciliation, market data, triggers,    *)
(* balances, buy side, sell side: the calls of a cycle never go back a     *)
(* step; live, reconciliation starts with the ticker read and, when that   *)
(* answers, queries every tracked order; every submission comes after all  *)
(* of reconciliation, after the strategy has answered and, live, after the *)
(* two balance reads; and a Sell is never submitted before a Buy, of which *)
(* a cycle submits at most one each.                                       *)
C14_StepsInOrder ==
    [][lastOp' = "run" =>
        /\ \A i, j \in DOMAIN calls' :
              i < j => StepOf(calls'[i]) <= StepOf(calls'[j])
        /\ pending_orders # EmptyMap =>
              /\ calls'[1].fn = "get_symbol_ticker"
              /\ calls'[1].ok =>
                    \A id \in DOMAIN pending_orders :
                        test_mode \/ Issued(calls', "get_order", id)
        /\ \A k \in DOMAIN placed' :
              /\ \A i \in DOMAIN calls' :
                    StepOf(calls'[i]) <= 3 => i <= placed'[k].at
              /\ \E i \in 1..placed'[k].at :
                    calls'[i] = Call("get_current_signal_prices", NoOrder, TRUE)
              /\ ~test_mode =>
                    Cardinality({i \in 1..placed'[k].at :
                                    calls'[i] = Call("get_asset_balance", NoOrder, TRUE)}) >= 3
        /\ Len(placed') <= 2
        /\ \A k, l \in DOMAIN placed' :
              k < l => placed'[k].side = "BUY" /\ placed'[l].side = "SELL"]_vars

(* C14 happens: a cycle has reconciled a tracked order and has then        *)
(* submitted a Buy and a Sell.                                             *)
C14_Witness ==
    /\ lastOp = "run"
    /\ Len(placed) = 2
    /\ \E id \in DOMAIN exchange : Answered(calls, "get_order", id)

(* C15. In run() a Buy is submitted only when the strategy answered a buy  *)
(* trigger and the quote balance read is above 0, a Sell only when it      *)
(* answered a sell trigger and the base balance read is above 0.  A cycle  *)
(* in which neither side qualifies (both triggers absent, or both balances *)
(* zero, among others) submits nothing, sizes nothing, and leaves          *)
(* pending_orders as reconciliation left it: nothing added, nothing        *)
(* altered.                                                                *)
C15_SubmitsOnlyOnTriggerAndBalance ==
    [][lastOp' = "run" =>
        /\ \A k \in DOMAIN placed' :
              IF placed'[k].side = "BUY"
              THEN inputs'.has_buy /\ inputs'.quote_balance > 0
              ELSE inputs'.has_sell /\ inputs'.base_balance > 0
        /\ (/\ ~(inputs'.has_buy /\ inputs'.quote_balance > 0)
            /\ ~(inputs'.has_sell /\ inputs'.base_balance > 0))
              => /\ placed' = <<>>
                 /\ ~Issued(calls', "get_symbol_info", NoOrder)
                 /\ \A i \in DOMAIN calls' : calls'[i].fn # "create_order"
                 /\ nextId' = nextId
                 /\ DOMAIN pending_orders' \subseteq DOMAIN pending_orders
                 /\ \A id \in DOMAIN pending_orders' :
                       pending_orders'[id] = pending_orders[id]]_vars

(* C15 happens: a cycle given both triggers and no quote balance has       *)
(* submitted its Sell alone.                                               *)
C15_Witness ==
    /\ lastOp = "run"
    /\ inputs.has_buy
    /\ inputs.has_sell
    /\ inputs.quote_balance = 0
    /\ Len(placed) = 1
    /\ placed[1].side = "SELL"

(* C16. No under-sized order is submitted: every order execute_trade hands *)
(* to place_limit_order, called by itself or from run(), is worth at least *)
(* the exchange's minimum notional at its order price.                     *)
C16_NoUndersizedSubmitted ==
    lastOp \in {"execute_trade", "run"} =>
        \A k \in DOMAIN placed :
            placed[k].quantity * placed[k].price >= min_notional

(* C17. On the grid, for every price > 0, balance >= 0, step > 0 and risk  *)
(* of at most 100%, calculate_quantity returns a whole, non-negative       *)
(* number of steps that is not above the unrounded size (balance * risk /  *)
(* price for a buy, balance * risk for a sell) and less than one step      *)
(* under it or exactly one (a float quotient that lands just under a whole *)
(* number of steps floors one step lower), hence not above balance / price *)
(* for a buy and not above balance for a sell.                             *)
C17_RoundedDownToStep ==
    (lastOp = "calculate_quantity" /\ ~raised) =>
        LET quantity == ret.value
            unrounded == inputs.balance * inputs.risk
            per_unit == IF inputs.is_buy THEN 100 * inputs.price ELSE 100
        IN /\ quantity >= 0
           /\ quantity % inputs.step = 0
           /\ quantity * per_unit <= unrounded
           /\ unrounded <= (quantity + inputs.step) * per_unit
           /\ IF inputs.is_buy
              THEN quantity * inputs.price <= inputs.balance
              ELSE quantity <= inputs.balance

(* C17 happens: a buy has been sized on a step of several units, from an   *)
(* unrounded size that is no whole number of steps, to more than nothing.  *)
C17_Witness ==
    /\ lastOp = "calculate_quantity"
    /\ inputs.is_buy
    /\ inputs.step > 1
    /\ ret.value > 0
    /\ (inputs.balance * inputs.risk) % (100 * inputs.price * inputs.step) # 0

(* C18. For every signal price > 0 and every buffer of 1% to 99%, the buy  *)
(* price determine_order_price returns is at most the signal price and the *)
(* sell price at least the signal price, up to the half unit of 10^-8 the  *)
(* rounding can add or take, and exactly so for a signal price that is a   *)
(* whole number of units; and no buy price it can return from a signal is  *)
(* above a sell price it can return from the same signal.                  *)
C18_BuyBelowSellAbove ==
    lastOp = "determine_order_price" =>
        LET price == ret.value
            signal_price == inputs.signal_price
            others == order_price_outcomes(signal_price, ~inputs.is_buy,
                                           inputs.buffer_pct, SubTicks)
        IN IF inputs.is_buy
           THEN /\ 2 * SubTicks * price <= 2 * signal_price + SubTicks
                /\ signal_price % SubTicks = 0 => SubTicks * price <= signal_price
                /\ \A sell_price \in others : price <= sell_price
           ELSE /\ 2 * SubTicks * price >= 2 * signal_price - SubTicks
                /\ signal_price % SubTicks = 0 => SubTicks * price >= signal_price
                /\ \A buy_price \in others : buy_price <= price

(* C18 happens: the buy price of a signal between two units of 10^-8 has   *)
(* been rounded to the unit above the signal.                              *)
C18_Witness ==
    /\ lastOp = "determine_order_price"
    /\ inputs.is_buy
    /\ SubTicks * ret.value > inputs.signal_price

(* The scenario of C19: quote balance 1000, buy signal at 100, buffer 5%,  *)
(* step 0.001 (risk is the agent's 1%).                                    *)
C19_Scenario ==
    [op |-> "execute_trade", signal |-> 1, signal_price |-> 100,
     balance |-> 1000, step |-> 1, buffer_pct |-> 5]

(* C19. In the scenario execute_trade(1, 100) submits exactly one order: a *)
(* Buy at 95.00 for 0.105, the quantity sized at the order price 95 and    *)
(* not at the signal price 100 (which would give 0.100).  For every input  *)
(* a submitted quantity is the size at the order price rounded down to the *)
(* step.                                                                   *)
C19_ScenarioValues ==
    lastOp = "execute_trade" =>
        /\ inputs = C19_Scenario =>
              placed = <<[side |-> "BUY", price |-> 9500, quantity |-> 105, at |-> 0]>>
        /\ Len(placed) <= 1
        /\ \A k \in DOMAIN placed :
              LET funds == inputs.balance * 100000
                  cost == 100 * placed[k].price
              IN /\ placed[k].quantity % inputs.step = 0
                 /\ placed[k].quantity * cost <= funds
                 /\ funds < (placed[k].quantity + inputs.step) * cost

(* C19 happens: execute_trade has run on the scenario and submitted. *)
C19_Witness ==
    /\ lastOp = "execute_trade"
    /\ inputs = C19_Scenario
    /\ placed # <<>>

(* C20. A stale cancellation leaves position alone.  In a pass that has    *)
(* cancelled an order as stale, position is never assigned from that       *)
(* order; the pass returns True only if it applied the fill of another     *)
(* order; and when it applied none, position is after the pass what it was *)
(* before it and the pass returns False.                                   *)
C20_StaleCancelKeepsPosition ==
    [][(lastOp' = Pass /\ \E id \in DOMAIN pending_orders :
                              Answered(calls', "cancel_order", id)) =>
        /\ \A id \in DOMAIN pending_orders :
              Answered(calls', "cancel_order", id)
                  => /\ id \notin Elems(writes')
                     /\ id \notin DOMAIN pending_orders'
                     /\ IsStale(pending_orders[id], now, lastPrice)
        /\ ret' = RetBool(writes' # <<>>)
        /\ writes' = <<>> => position' = position
        /\ writes' # <<>> =>
              position' = ExpectedAfter(exchange[writes'[Len(writes')]])]_vars

(* C20 happens: a pass has cancelled a stale order while a Long position   *)
(* was held, and has returned False.                                       *)
C20_Witness ==
    /\ lastOp = Pass
    /\ \E id \in DOMAIN exchange : Answered(calls, "cancel_order", id)
    /\ position # Flat
    /\ ret = RetBool(FALSE)

(* A buy of execute_trade on the agent's grid, where a step is one lot,    *)
(* submits what order_values works out.                                    *)
ExecuteTradeAgrees ==
    (lastOp = "execute_trade" /\ ~raised /\ inputs.signal = 1) =>
        [k \in DOMAIN placed |-> [placed[k] EXCEPT !.at = 0]]
            \in order_values(TRUE, inputs.signal_price, inputs.balance, 1,
                             safety_buffer_pct, risk_pct, ValuePerQuote \div 10000)

----------------------------------------------------------------------------
(* C21. At every reachable state position is either Flat or one Long       *)
(* record {side: long, entry_price, quantity, asset: base} that is the     *)
(* record of a single filled Buy order of the exchange: never a short      *)
(* position, never the sum of several fills.                               *)
C21_FlatOrSingleLong ==
    \/ position = Flat
    \/ \E id \in DOMAIN exchange :
          /\ exchange[id].side = "BUY"
          /\ exchange[id].status = "FILLED"
          /\ position = LongOf(exchange[id])

(* C21 happens: one pass has applied the fills of two Buy orders and a     *)
(* Long is held.                                                           *)
C21_Witness ==
    /\ lastOp = Pass
    /\ Len(writes) = 2
    /\ \A i \in DOMAIN writes : exchange[writes[i]].side = "BUY"
    /\ position # Flat

(* The orders in which the order ids of S can have been inserted. *)
Orderings(S) ==
    {s \in [1..Cardinality(S) -> S] : \A i, j \in DOMAIN s : i # j => s[i] # s[j]}

(* The order ids whose call of fn failed in the log. *)
FailedIn(log, fn) == {log[i].id : i \in {k \in DOMAIN log : log[k].fn = fn /\ ~log[k].ok}}

(* C22. Insertion order is irrelevant to reconciliation: a pass leaves in  *)
(* pending_orders and position what its loop leaves when it walks the same *)
(* tracked orders, with the same answers of the exchange, in any other     *)
(* order of insertion.                                                     *)
C22_InsertionOrderIrrelevant ==
    [][(lastOp' = Pass /\ ~raised') =>
        \A ids \in Orderings(DOMAIN pending_orders) :
            LET other == check_loop(Start, ids, test_mode, now, lastPrice,
                                    FailedIn(calls', "get_order"),
                                    FailedIn(calls', "cancel_order"))
            IN /\ other.pending = pending_orders'
               /\ other.position = position']_vars

(* C23. When two run() cycles overlap on the agent, the registry is        *)
(* guarded: the fill of an order is assigned to position by at most one    *)
(* cycle, and an order is deleted from pending_orders by at most one       *)
(* cycle.                                                                  *)
C23_OneCyclePerOrder ==
    \A order_id \in DOMAIN exchange :
        /\ Cardinality({c \in DOMAIN cycles : order_id \in cycles[c].applied}) <= 1
        /\ Cardinality({c \in DOMAIN cycles : order_id \in cycles[c].removed}) <= 1

(* The pass that ends in the primed state saw order id Filled: the made-up *)
(* fill of test mode, or the answer of its status query.                   *)
ObservedFilled(id) ==
    \/ test_mode
    \/ /\ Answered(calls', "get_order", id)
       /\ exchange[id].status = "FILLED"

(* C24. check_pending_orders returns True if and only if the pass saw at   *)
(* least one tracked order Filled, and every order it saw Filled has been  *)
(* applied to position and removed; it returns False on an empty registry, *)
(* when no order was filled, and when orders were only cancelled as stale. *)
C24_TrueIffFillObserved ==
    [][(lastOp' = Pass /\ ~raised') =>
        /\ ret' = RetBool(\E id \in DOMAIN pending_orders : ObservedFilled(id))
        /\ \A id \in DOMAIN pending_orders :
              ObservedFilled(id) => /\ id \in Elems(writes')
                                    /\ id \notin DOMAIN pending_orders'
        /\ DOMAIN pending_orders = {} => ret' = RetBool(FALSE)
        /\ writes' = <<>> => ret' = RetBool(FALSE)]_vars

(* C24 happens: a pass over two tracked orders has returned True, having   *)
(* applied the fill of the first and left the second, not filled, tracked. *)
C24_Witness ==
    /\ lastOp = Pass
    /\ ret = RetBool(TRUE)
    /\ \E id \in DOMAIN pending_orders :
          /\ Answered(calls, "get_order", id)
          /\ \E filled \in Elems(writes) : filled < id

(* C25. cancel_pending_orders cancels all pending orders: it returns with  *)
(* pending_orders empty whatever the cancel calls answered, it has issued  *)
(* exactly one cancel call for each order that was tracked in live mode    *)
(* and no client call in test mode, and position is what it was.           *)
C25_CancelAllEmptiesRegistry ==
    [][lastOp' = "cancel_pending_orders" =>
        /\ ~raised'
        /\ pending_orders' = EmptyMap
        /\ position' = position
        /\ test_mode => calls' = <<>>
        /\ ~test_mode =>
              /\ Len(calls') = Cardinality(DOMAIN pending_orders)
              /\ \A id \in DOMAIN pending_orders :
                    Cardinality({i \in DOMAIN calls' :
                        calls'[i].fn = "cancel_order" /\ calls'[i].id = id}) = 1]_vars

(* C25 happens: with two orders tracked, the cancel of the first has       *)
(* failed, the cancel of the second has answered, and the registry is      *)
(* empty.                                                                  *)
C25_Witness ==
    /\ lastOp = "cancel_pending_orders"
    /\ pending_orders = EmptyMap
    /\ \E first, second \in DOMAIN exchange :
          /\ first < second
          /\ calls = <<Call("cancel_order", first, FALSE),
                       Call("cancel_order", second, TRUE)>>

(* C26. generate_signals of VWAPReversion, MultiTimeframeMomentum and      *)
(* ATRTrailingBreakout returns, for every input frame, one row per bar     *)
(* with a position in {-1, 0, 1}; in ATRTrailingBreakout's loop this holds *)
(* after every iteration.                                                  *)
C26_PositionInRange ==
    /\ strategy_signals.pc # "raised"
    /\ strategy_signals.pc \in {"loop", "returned"} =>
          /\ Len(strategy_signals.position) = Len(strategy_signals.bars)
          /\ \A k \in DOMAIN strategy_signals.position :
                strategy_signals.position[k] \in {-1, 0, 1}

(* The part of C26 the code keeps: on a frame that has every column the    *)
(* strategy reads, the rows are one per bar and each position is in range, *)
(* and an exit and an entry on the same bar leave the entry's position.    *)
SignalsInRangeOnCompleteFrame ==
    (strategy_signals.strategy = "VWAPReversion" => strategy_signals.has_quotes) =>
        C26_PositionInRange

(* ATRTrailingBreakout has entered a Long on the second bar, left it on    *)
(* the third and entered a Short on that same bar.                         *)
ExitAndEntryOnOneBar ==
    /\ strategy_signals.pc = "returned"
    /\ strategy_signals.position = <<0, 1, -1>>

(* C27. determine_order_price rounds half away from zero: the price it     *)
(* returns is the unit of 10^-8 nearest to the buffered price, and for a   *)
(* buffered price exactly half way between two units (9th decimal digit 5, *)
(* nothing after it) it is the unit of larger magnitude.                   *)
C27_HalfAwayFromZero ==
    lastOp = "determine_order_price" =>
        LET n == inputs.signal_price *
                    (IF inputs.is_buy THEN 100 - inputs.buffer_pct
                                      ELSE 100 + inputs.buffer_pct)
            d == 100 * SubTicks
        IN /\ 2 * (n % d) < d => ret.value = n \div d
           /\ 2 * (n % d) >= d => ret.value = n \div d + 1

(* C28. In the market-order agent, execute_trade in test mode has no       *)
(* trading effect: whatever the signal, price and quantity, it makes no    *)
(* client call, returns None, raises nothing and leaves position and the   *)
(* exchange as they were; no test-mode call of any method issues           *)
(* create_order, and position is None at every state of a test-mode agent. *)
C28_TestModeTradesNothing ==
    /\ [](test_mode => position = None /\ exchange = EmptyMap)
    /\ [][test_mode =>
             /\ ~Issued(calls', "create_order", NoOrder)
             /\ position' = position
             /\ lastOp' = "execute_trade" =>
                   /\ calls' = <<>>
                   /\ ret' = RetNone
                   /\ ~raised']_vars

(* C28 happens: a second test-mode run() cycle in a row has come to its    *)
(* execute_trade call, for a Buy of a positive quantity, and position is   *)
(* None.                                                                   *)
C28_Witness ==
    /\ test_mode
    /\ lastOp = "run"
    /\ prev.op = "run"
    /\ Len(placed) = 1
    /\ placed[1].side = "BUY"
    /\ placed[1].quantity > 0
    /\ position = None

(* C29. A fill takes precedence over staleness.  An order whose status     *)
(* query in a pass answered Filled is sent no cancel call in that pass,    *)
(* also when it is older than order_timeout and the last price is more     *)
(* than 10% away from its price; its fill is assigned to position and the  *)
(* order is removed.                                                       *)
C29_FillBeforeStaleness ==
    [][lastOp' = Pass =>
        \A id \in DOMAIN pending_orders :
            (Answered(calls', "get_order", id) /\ exchange[id].status = "FILLED")
                => /\ ~Issued(calls', "cancel_order", id)
                   /\ Count(writes', id) = 1
                   /\ id \notin DOMAIN pending_orders'
                   /\ exchange'[id].status = "FILLED"
                   /\ writes'[Len(writes')] = id
                         => position' = ExpectedAfter(exchange[id])]_vars

(* C29 happens: a pass has applied the fill of a Buy that was stale when   *)
(* the pass began, without any cancel call, and holds its Long.            *)
C29_Witness ==
    /\ lastOp = Pass
    /\ \E id \in inputs.stale :
          /\ id \in Elems(writes)
          /\ exchange[id].status = "FILLED"
          /\ position = LongOf(exchange[id])
    /\ \A i \in DOMAIN calls : calls[i].fn # "cancel_order"

CreatedIn(log) ==
    {log[i].id : i \in {k \in DOMAIN log : log[k].fn = "create_order" /\ log[k].ok}}

(* C31. When create_order raises in live mode the method raises to its     *)
(* caller and the failed submission leaves no trace: place_limit_order     *)
(* leaves pending_orders as it was; and in a cycle, no entry and no        *)
(* exchange order exists for the failed submission, while every order      *)
(* submitted earlier in the same cycle is tracked with the values it was   *)
(* submitted with.                                                         *)
C31_FailedSubmissionNotTracked ==
    [][Failed(calls', "create_order", NoOrder) =>
        /\ ~test_mode
        /\ raised'
        /\ calls'[Len(calls')] = Call("create_order", NoOrder, FALSE)
        /\ lastOp' = "place_limit_order" => pending_orders' = pending_orders
        /\ DOMAIN exchange' = DOMAIN exchange \cup CreatedIn(calls')
        /\ DOMAIN pending_orders' \subseteq DOMAIN pending_orders \cup CreatedIn(calls')
        /\ \A id \in CreatedIn(calls') :
              /\ id \in DOMAIN pending_orders'
              /\ \E k \in DOMAIN placed' :
                    pending_orders'[id] =
                        [side |-> placed'[k].side, price |-> placed'[k].price,
                         quantity |-> placed'[k].quantity, timestamp |-> now]]_vars

(* C31 happens: in one cycle the Buy has been submitted and tracked, the   *)
(* Sell submission has failed, and the cycle has raised.                   *)
C31_Witness ==
    /\ lastOp = "run"
    /\ raised
    /\ Failed(calls, "create_order", NoOrder)
    /\ \E id \in CreatedIn(calls) :
          /\ id \in DOMAIN pending_orders
          /\ pending_orders[id].side = "BUY"
    /\ Len(placed) = 2
    /\ placed[2].side = "SELL"

(* Whether a cycle given these triggers and balances submits on a side:    *)
(* the trigger is there, the balance is positive and the quantity passes   *)
(* the size check of execute_trade.                                        *)
SubmitsOn(given, is_buy) ==
    LET has == IF is_buy THEN given.has_buy ELSE given.has_sell
        signal_price == IF is_buy THEN given.buy_price ELSE given.sell_price
        balance == IF is_buy THEN given.quote_balance ELSE given.base_balance
        quantity == sized_lots(balance, determine_order_price(signal_price, is_buy), is_buy)
    IN has /\ balance > 0 /\ ~invalid_quantity(quantity, signal_price)

(* C32. Submission in run() does not look at what is tracked or held.  A   *)
(* live cycle that ends without raising has submitted exactly one new      *)
(* order on each side whose trigger is present, whose balance is positive  *)
(* and whose size check passes, and none on the other sides; each of them  *)
(* is one more entry of pending_orders next to the entries the cycle's     *)
(* reconciliation left, whatever was pending and whatever position is.     *)
C32_SubmitsWhateverIsTracked ==
    [][(lastOp' = "run" /\ ~test_mode /\ ~raised') =>
        /\ \A side \in {"BUY", "SELL"} :
              Cardinality({id \in CreatedIn(calls') : exchange'[id].side = side})
                  = IF SubmitsOn(inputs', side = "BUY") THEN 1 ELSE 0
        /\ CreatedIn(calls') \cap DOMAIN pending_orders = {}
        /\ CreatedIn(calls') \subseteq DOMAIN pending_orders'
        /\ \A id \in DOMAIN pending_orders \cap DOMAIN pending_orders' :
              pending_orders'[id] = pending_orders[id]]_vars

(* C32 happens: a cycle has submitted a Buy while an earlier Buy was still *)
(* tracked, and two Buy orders are now tracked together.                   *)
C32_Witness ==
    /\ lastOp = "run"
    /\ ~raised
    /\ \E old, new \in DOMAIN pending_orders :
          /\ old \notin CreatedIn(calls)
          /\ new \in CreatedIn(calls)
          /\ pending_orders[old].side = "BUY"
          /\ pending_orders[new].side = "BUY"

(* C33. In the market-order agent a run() cycle trades nothing when the    *)
(* latest signal is 0 or the quantity it computes is not positive:         *)
(* execute_trade is not called, no create_order call is made, and          *)
(* position and the exchange are as they were.                             *)
C33_NoSignalOrNoQuantityNoTrade ==
    [][(/\ lastOp' = "run"
        /\ \/ inputs'.latest_signal = 0
           \/ quantity_on_step(inputs'.balance, inputs'.current_price,
                               inputs'.latest_signal = 1, 1, inputs'.risk) <= 0) =>
        /\ placed' = <<>>
        /\ ~Issued(calls', "create_order", NoOrder)
        /\ CreatedIn(calls') = {}
        /\ position' = position
        /\ exchange' = exchange
        /\ ret' = RetNone]_vars

(* C33 happens: a live cycle with a buy signal has sized a quantity of 0   *)
(* and returned without trading, the Long of an earlier trade still held.  *)
C33_Witness ==
    /\ lastOp = "run"
    /\ ~test_mode
    /\ ~raised
    /\ inputs.latest_signal = 1
    /\ Answered(calls, "get_symbol_info", NoOrder)
    /\ placed = <<>>
    /\ position # None

(* C34. In the live market-order agent position changes only after a       *)
(* create_order call that answered: a call that bought leaves the Long     *)
(* record of that order (its price and quantity, the base asset), a call   *)
(* that sold leaves None; and when create_order raises, position and the   *)
(* exchange are as they were and the method raises.                        *)
C34_PositionFollowsCreateOrder ==
    [][~test_mode =>
        /\ position' # position => CreatedIn(calls') # {}
        /\ \A id \in CreatedIn(calls') :
              /\ id \notin DOMAIN exchange
              /\ position' = IF exchange'[id].side = "BUY"
                             THEN [side |-> "long", entry_price |-> placed'[1].price,
                                   quantity |-> placed'[1].quantity, asset |-> "base"]
                             ELSE None
              /\ ~raised'
        /\ Failed(calls', "create_order", NoOrder) =>
              /\ position' = position
              /\ exchange' = exchange
              /\ raised']_vars

(* C34 happens: create_order has raised on a Sell while a Long was held:   *)
(* the method has raised and the Long is still held.                       *)
C34_Witness ==
    /\ ~test_mode
    /\ raised
    /\ Failed(calls, "create_order", NoOrder)
    /\ Len(placed) = 1
    /\ placed[1].side = "SELL"
    /\ position # None

----------------------------------------------------------------------------
(* The simulated agent: class TradingAgent of src/agent/VET.py.            *)
(* Prices fed to the agent are whole units; the two order prices are kept  *)
(* in 1/10000 of a unit, the grid on which price * (1 -+ order_offset/100) *)
(* is exact for order_offset = 0.01.                                       *)

MaxWindow == 3
VetPrices == {80, 93, 100, 107, 120}
VetActions == {"buy", "sell"}

percentage_threshold == 7
OffsetGrid == 100 * 100
order_offset == 1

(* Python's None in a field that otherwise holds a price. *)
PyNone == -1

(* if x: on a field that holds None or a price. *)
truthy(x) == x # PyNone /\ x # 0

(* TradingAgent.__init__ *)
TradingAgent(window_size) ==
    [window_size |-> window_size,
     price_history |-> <<>>,
     last_filled_price |-> PyNone,
     last_action |-> "None",
     current_orders |-> [buy |-> PyNone, sell |-> PyNone]]

(* The history in ascending order. *)
RECURSIVE sorted_prices(_)
sorted_prices(h) ==
    IF h = <<>> THEN <<>>
    ELSE LET i == CHOOSE k \in 1..Len(h) : \A j \in 1..Len(h) : h[k] <= h[j]
         IN <<h[i]>> \o sorted_prices(SubSeq(h, 1, i - 1) \o SubSeq(h, i + 1, Len(h)))

(* Twice np.median(price_history): the middle price, or the sum of the two *)
(* middle prices of a history of even length.                              *)
median_twice(h) ==
    LET s == sorted_prices(h)
        n == Len(h)
    IN IF n % 2 = 1 THEN 2 * s[(n + 1) \div 2] ELSE s[n \div 2] + s[n \div 2 + 1]

(* current_price <= ma_value * (1 - percentage_threshold / 100) and        *)
(* current_price >= ma_value * (1 + percentage_threshold / 100), on exact  *)
(* numbers: both sides times 200.                                          *)
at_or_below_buy_threshold(h, current_price) ==
    200 * current_price <= median_twice(h) * (100 - percentage_threshold)

at_or_above_sell_threshold(h, current_price) ==
    200 * current_price >= median_twice(h) * (100 + percentage_threshold)

(* What the float comparison can answer: the threshold is a rounded        *)
(* product, so a price exactly on it compares either way.                  *)
buy_threshold_outcomes(h, current_price) ==
    IF 200 * current_price = median_twice(h) * (100 - percentage_threshold)
    THEN BOOLEAN ELSE {at_or_below_buy_threshold(h, current_price)}

sell_threshold_outcomes(h, current_price) ==
    IF 200 * current_price = median_twice(h) * (100 + percentage_threshold)
    THEN BOOLEAN ELSE {at_or_above_sell_threshold(h, current_price)}

(* TradingAgent._place_order: the order of that side is set, whatever was  *)
(* resting there.                                                          *)
vet_place_order(orders, action, price) == [orders EXCEPT ![action] = price]

(* _cancel_invalid_orders, were its loop to look at the buy order only.    *)
cancel_invalid_orders_buy_only(orders, below, above) ==
    [buy |-> IF truthy(orders.buy) /\ ~below THEN PyNone ELSE orders.buy,
     sell |-> orders.sell]

(* TradingAgent._cancel_invalid_orders: below is current_price <=          *)
(* buy_threshold, above is current_price >= sell_threshold.                *)
cancel_invalid_orders(orders, below, above) ==
    [buy |-> IF truthy(orders.buy) /\ ~below THEN PyNone ELSE orders.buy,
     sell |-> IF truthy(orders.sell) /\ ~above THEN PyNone ELSE orders.sell]

(* TradingAgent._update_orders: the orders it leaves and the _place_order  *)
(* calls it made.                                                          *)
update_orders(a, current_price, below, above) ==
    LET kept == cancel_invalid_orders(a.current_orders, below, above)
        buy_price == current_price * (OffsetGrid - order_offset)
        sell_price == current_price * (OffsetGrid + order_offset)
    IN IF below /\ ~truthy(kept.buy)
       THEN IF a.last_action # "buy" \/ a.last_filled_price = PyNone
                                     \/ current_price < a.last_filled_price
            THEN [orders |-> vet_place_order(kept, "buy", buy_price),
                  placed |-> <<[action |-> "buy", price |-> buy_price]>>]
            ELSE [orders |-> kept, placed |-> <<>>]
       ELSE IF above /\ ~truthy(kept.sell)
       THEN IF a.last_action # "sell" \/ a.last_filled_price = PyNone
                                      \/ current_price > a.last_filled_price
            THEN [orders |-> vet_place_order(kept, "sell", sell_price),
                  placed |-> <<[action |-> "sell", price |-> sell_price]>>]
            ELSE [orders |-> kept, placed |-> <<>>]
       ELSE [orders |-> kept, placed |-> <<>>]

(* The history update_price keeps: the new price appended, the oldest     *)
(* dropped when that makes more than window_size.                          *)
window(a, new_price) ==
    LET appended == Append(a.price_history, new_price)
    IN IF Len(appended) > a.window_size THEN Tail(appended) ELSE appended

(* update_price, were it to call _update_orders on every price.            *)
update_price_on_any_window(a, new_price, below, above) ==
    LET history == window(a, new_price)
        updated == update_orders([a EXCEPT !.price_history = history],
                                 new_price, below, above)
    IN [agent |-> [a EXCEPT !.price_history = history,
                            !.current_orders = updated.orders],
        placed |-> updated.placed]

(* TradingAgent.update_price *)
update_price(a, new_price, below, above) ==
    LET history == window(a, new_price)
        updated == update_orders([a EXCEPT !.price_history = history],
                                 new_price, below, above)
    IN IF Len(history) >= a.window_size
       THEN [agent |-> [a EXCEPT !.price_history = history,
                                 !.current_orders = updated.orders],
             placed |-> updated.placed]
       ELSE [agent |-> [a EXCEPT !.price_history = history], placed |-> <<>>]

(* order_filled, were it to leave an opposite order that is already        *)
(* resting where it is.                                                    *)
order_filled_keeps_resting(a, action, filled_price) ==
    LET opposite_action == IF action = "buy" THEN "sell" ELSE "buy"
        new_price == IF opposite_action = "sell"
                     THEN filled_price * (OffsetGrid + order_offset)
                     ELSE filled_price * (OffsetGrid - order_offset)
        cleared == [a.current_orders EXCEPT ![action] = PyNone]
    IN [agent |-> [a EXCEPT !.last_action = action,
                            !.last_filled_price = filled_price,
                            !.current_orders =
                                IF truthy(cleared[opposite_action]) THEN cleared
                                ELSE vet_place_order(cleared, opposite_action, new_price)],
        placed |-> <<[action |-> opposite_action, price |-> new_price]>>]

(* TradingAgent.order_filled *)
order_filled(a, action, filled_price) ==
    LET opposite_action == IF action = "buy" THEN "sell" ELSE "buy"
        new_price == IF opposite_action = "sell"
                     THEN filled_price * (OffsetGrid + order_offset)
                     ELSE filled_price * (OffsetGrid - order_offset)
        cleared == [a.current_orders EXCEPT ![action] = PyNone]
    IN [agent |-> [a EXCEPT !.last_action = action,
                            !.last_filled_price = filled_price,
                            !.current_orders =
                                vet_place_order(cleared, opposite_action, new_price)],
        placed |-> <<[action |-> opposite_action, price |-> new_price]>>]

VetInit ==
    /\ test_mode = TRUE
    /\ position = None
    /\ pending_orders = EmptyMap
    /\ exchange = EmptyMap
    /\ nextId = 1
    /\ now = 0
    /\ lastPrice \in LastPrices
    /\ lastOp = "idle"
    /\ calls = <<>>
    /\ placed = <<>>
    /\ inputs = NoInputs
    /\ writes = <<>>
    /\ raised = FALSE
    /\ ret = RetNone
    /\ prev = NoPrev
    /\ cycles = NoCycles
    /\ strategy_signals = NoSignals
    /\ paging = NoPaging
    /\ simulated \in {TradingAgent(w) : w \in 1..MaxWindow}

VetStep(op, r, given) ==
    /\ simulated' = r.agent
    /\ placed' = r.placed
    /\ lastOp' = op
    /\ inputs' = given
    /\ UNCHANGED <<test_mode, position, pending_orders, exchange, nextId, now,
                   lastPrice, calls, writes, raised, ret, prev, cycles,
                   strategy_signals, paging>>

(* The driver feeds the next price. *)
UpdatePrice ==
    \E new_price \in VetPrices :
      LET history == window(simulated, new_price)
      IN \E below \in buy_threshold_outcomes(history, new_price),
            above \in sell_threshold_outcomes(history, new_price) :
           VetStep("update_price",
                   update_price(simulated, new_price, below, above),
                   [op |-> "update_price", new_price |-> new_price,
                    below |-> below, above |-> above,
                    resting |-> simulated.current_orders,
                    received |-> Len(simulated.price_history)])

(* The driver reports a fill. *)
OrderFilled ==
    \E action \in VetActions, filled_price \in VetPrices :
      VetStep("order_filled",
              order_filled(simulated, action, filled_price),
              [op |-> "order_filled", action |-> action,
               filled_price |-> filled_price,
               resting |-> simulated.current_orders])

VetNext == UpdatePrice \/ OrderFilled

VetSpec == VetInit /\ [][VetNext]_vars

----------------------------------------------------------------------------
(* The simulated agent's claims. *)

Opposite(action) == IF action = "buy" THEN "sell" ELSE "buy"

(* The price order_filled gives the opposite order of a fill at p. *)
OppositePrice(action, p) ==
    IF Opposite(action) = "sell" THEN p * (OffsetGrid + order_offset)
    ELSE p * (OffsetGrid - order_offset)

(* C35: when order_filled(action, p) has returned, current_orders[action]  *)
(* is None, last_action is action, last_filled_price is p, the opposite    *)
(* side holds an order at p*(1+offset) for a sell and p*(1-offset) for a   *)
(* buy whatever was resting there before, the one _place_order call was    *)
(* for that order, and the opposite side is the only side with an order.   *)
C35_OrderFilledSwapsSides ==
    lastOp = "order_filled" =>
      LET action == inputs.action
          p == inputs.filled_price
      IN /\ simulated.current_orders[action] = PyNone
         /\ simulated.last_action = action
         /\ simulated.last_filled_price = p
         /\ simulated.current_orders[Opposite(action)] = OppositePrice(action, p)
         /\ placed = <<[action |-> Opposite(action), price |-> OppositePrice(action, p)]>>
         /\ \A side \in VetActions :
               truthy(simulated.current_orders[side]) <=> side = Opposite(action)

(* A fill has been reported while an opposite-side order rested at another *)
(* price: the order is now at the price the fill gives it.                 *)
C35_Witness ==
    /\ lastOp = "order_filled"
    /\ truthy(inputs.resting[Opposite(inputs.action)])
    /\ inputs.resting[Opposite(inputs.action)] # OppositePrice(inputs.action, inputs.filled_price)
    /\ simulated.current_orders[Opposite(inputs.action)] = OppositePrice(inputs.action, inputs.filled_price)

(* C36: when update_price has returned with a full window, a resting buy   *)
(* order means the price just fed is at or below the buy threshold and a   *)
(* resting sell order means it is at or above the sell threshold; an order *)
(* that rested before the call on a side whose threshold the price has not *)
(* reached is gone, and one whose threshold the price is strictly beyond   *)
(* is still the same order.                                                *)
C36_RestingOrdersWithinThresholds ==
    (lastOp = "update_price" /\ Len(simulated.price_history) >= simulated.window_size) =>
      LET h == simulated.price_history
          p == inputs.new_price
          orders == simulated.current_orders
          before == inputs.resting
      IN /\ truthy(orders.buy) => at_or_below_buy_threshold(h, p)
         /\ truthy(orders.sell) => at_or_above_sell_threshold(h, p)
         /\ (truthy(before.buy) /\ ~at_or_below_buy_threshold(h, p)) => orders.buy = PyNone
         /\ (truthy(before.sell) /\ ~at_or_above_sell_threshold(h, p)) => orders.sell = PyNone
         /\ (truthy(before.buy) /\ buy_threshold_outcomes(h, p) = {TRUE}) => orders.buy = before.buy
         /\ (truthy(before.sell) /\ sell_threshold_outcomes(h, p) = {TRUE}) => orders.sell = before.sell

(* The sell order that order_filled placed after a buy fill has been       *)
(* cancelled by an update_price whose price is under the sell threshold.   *)
C36_Witness ==
    /\ lastOp = "update_price"
    /\ Len(simulated.price_history) >= simulated.window_size
    /\ simulated.last_action = "buy"
    /\ inputs.resting.sell = OppositePrice("buy", simulated.last_filled_price)
    /\ ~at_or_above_sell_threshold(simulated.price_history, inputs.new_price)
    /\ simulated.current_orders.sell = PyNone

(* The sides on which a call left an order that was not there before it.   *)
NewlyPlaced(before, after) ==
    {side \in VetActions : truthy(after[side]) /\ after[side] # before[side]}

(* C37: an update_price call leaves at most window_size prices in          *)
(* price_history, the ones it had with the new price at the end and, when  *)
(* the window was full already, without the oldest; while the history is   *)
(* shorter than window_size it makes no _place_order call and leaves both  *)
(* orders as they were; and on any window it makes at most one             *)
(* _place_order call and leaves a new order on at most one side.           *)
C37_WindowBoundedOnePlacement ==
    [][lastOp' = "update_price" =>
         LET h == simulated.price_history
             w == simulated.window_size
             p == inputs'.new_price
         IN /\ Len(simulated'.price_history) <= w
            /\ simulated'.price_history =
                   IF Len(h) < w THEN Append(h, p) ELSE Append(Tail(h), p)
            /\ Len(simulated'.price_history) < w =>
                   /\ placed' = <<>>
                   /\ simulated'.current_orders = simulated.current_orders
            /\ Len(placed') <= 1
            /\ Cardinality(NewlyPlaced(simulated.current_orders,
                                       simulated'.current_orders)) <= 1
            /\ Cardinality(NewlyPlaced(simulated.current_orders,
                                       simulated'.current_orders)) = Len(placed')]_vars

(* update_price has been given a price on a full window, dropped the       *)
(* oldest one and placed an order.                                         *)
C37_Witness ==
    /\ lastOp = "update_price"
    /\ simulated.window_size > 1
    /\ inputs.received = simulated.window_size
    /\ Len(simulated.price_history) = simulated.window_size
    /\ Len(placed) = 1
    /\ simulated.current_orders[placed[1].action] = placed[1].price

----------------------------------------------------------------------------
(* ATRTrailingBreakout's loop: flags and trailing stop. *)

(* The rows the loop has processed so far (the first row never is). *)
Processed == 2..(strategy_signals.i - 1)

(* C38: in ATRTrailingBreakout.generate_signals in_long and in_short are   *)
(* never both true; on two consecutive rows that both carry a Long the     *)
(* later stop_loss is not below the earlier one, and on two consecutive    *)
(* rows that both carry a Short it is not above; and the row processed     *)
(* last has position 1 only with in_long set and -1 only with in_short.    *)
C38_FlagsExclusiveStopTrails ==
    (strategy_signals.strategy = "ATRTrailingBreakout"
       /\ strategy_signals.pc \in {"loop", "returned"}) =>
      LET s == strategy_signals
      IN /\ ~(s.in_long /\ s.in_short)
         /\ \A k \in Processed :
               /\ (s.position[k - 1] = 1 /\ s.position[k] = 1) =>
                      ~lt(s.stop_loss[k], s.stop_loss[k - 1])
               /\ (s.position[k - 1] = -1 /\ s.position[k] = -1) =>
                      ~gt(s.stop_loss[k], s.stop_loss[k - 1])
         /\ (s.i - 1) \in Processed =>
               /\ s.position[s.i - 1] = 1 => s.in_long
               /\ s.position[s.i - 1] = -1 => s.in_short

(* The part of C38 the loop keeps: the flags are never both set, the last  *)
(* row's position agrees with them, and a row that takes the hold branch   *)
(* (the position was held and neither exit fired) has its stop_loss on the *)
(* side of the previous row's.                                             *)
FlagsExclusiveStopTrailsWhileHeld ==
    [][(strategy_signals.strategy = "ATRTrailingBreakout" /\ strategy_signals.pc = "loop") =>
         LET s == strategy_signals
             t == strategy_signals'
             i == s.i
             close == s.bars[i].close
         IN /\ ~(t.in_long /\ t.in_short)
            /\ t.position[i] = 1 <=> t.in_long
            /\ t.position[i] = -1 <=> t.in_short
            /\ (s.in_long /\ ~lt(close, s.stop_loss[i - 1]) /\ ~gt(close, s.take_profit[i - 1])) =>
                   /\ t.in_long
                   /\ ~lt(t.stop_loss[i], s.stop_loss[i - 1])
            /\ (s.in_short /\ ~gt(close, s.stop_loss[i - 1]) /\ ~lt(close, s.take_profit[i - 1])) =>
                   /\ t.in_short
                   /\ ~gt(t.stop_loss[i], s.stop_loss[i - 1])]_vars

(* On a frame whose rolling highs follow its bars, a Long entered on the   *)
(* second bar is closed at its take-profit on the third, a bar with a wide *)
(* range, and entered again there with a stop under the old one: both rows *)
(* carry position 1 and the stop_loss has dropped.                         *)
StopLoweredAfterTakeProfit ==
    /\ strategy_signals.strategy = "ATRTrailingBreakout"
    /\ strategy_signals.pc = "returned"
    /\ Len(strategy_signals.bars) = 3
    /\ strategy_signals.bars[3].rolling_high >= strategy_signals.bars[2].close
    /\ gt(strategy_signals.bars[3].close, strategy_signals.take_profit[2])
    /\ strategy_signals.position = <<0, 1, 1>>
    /\ lt(strategy_signals.stop_loss[3], strategy_signals.stop_loss[2])

----------------------------------------------------------------------------
(* DataLoader.fetch_ohlcv (src/core/data_loader.py): the paging loop.      *)
(* Timestamps are whole milliseconds, counted from the earliest one.       *)

MaxStamp == 3
MaxPage == 2
(* More rows than pages that each move current_since forward can bring.    *)
MaxRows == (MaxStamp + 1) * MaxPage

Stamps == 0..MaxStamp

(* What exchange.fetch_ohlcv can answer: candles in time order, at most    *)
(* MaxPage of them (limit=1000 in the code), or none.  Only the timestamp  *)
(* of a candle is kept.                                                    *)
Pages == {SortedSeq(S) : S \in {T \in SUBSET Stamps : Cardinality(T) <= MaxPage}}

(* fetch_ohlcv is entered: since and end are parsed, nothing is fetched.   *)
Paging(since, end) ==
    [pc |-> "loop", since |-> since, end |-> end, current_since |-> since,
     all_ohlcv |-> <<>>, data |-> <<>>, pages |-> 0, behind |-> FALSE]

(* current_since = data[-1][0], without the + 1.                           *)
since_after_same_candle(data) == data[Len(data)]

(* current_since = data[-1][0] + 1 *)
since_after(data) == data[Len(data)] + 1

(* One pass of the while body on the page the exchange answered.  behind   *)
(* records that a page has ended before the since it was asked from.       *)
fetch_page(p, data) ==
    IF data = <<>>
    THEN [p EXCEPT !.pc = "returned", !.data = data, !.pages = @ + 1]
    ELSE [p EXCEPT !.all_ohlcv = @ \o data,
                   !.current_since = since_after(data),
                   !.data = data,
                   !.pages = @ + 1,
                   !.behind = @ \/ data[Len(data)] < p.current_since]

PagingInit ==
    /\ test_mode = TRUE
    /\ position = None
    /\ pending_orders = EmptyMap
    /\ exchange = EmptyMap
    /\ nextId = 1
    /\ now = 0
    /\ lastPrice \in LastPrices
    /\ lastOp = "idle"
    /\ calls = <<>>
    /\ placed = <<>>
    /\ inputs = NoInputs
    /\ writes = <<>>
    /\ raised = FALSE
    /\ ret = RetNone
    /\ prev = NoPrev
    /\ cycles = NoCycles
    /\ strategy_signals = NoSignals
    /\ simulated = NoAgent
    /\ paging \in {Paging(since, end) : since \in Stamps, end \in Stamps}

PagingStep(p) ==
    /\ paging' = p
    /\ UNCHANGED <<test_mode, position, pending_orders, exchange, nextId, now,
                   lastPrice, lastOp, calls, placed, inputs, writes, raised, ret,
                   prev, cycles, strategy_signals, simulated>>

(* while current_since < end: the exchange answers a page. *)
PageAnswered ==
    /\ paging.pc = "loop"
    /\ paging.current_since < paging.end
    /\ \E data \in Pages :
          /\ Len(paging.all_ohlcv) + Len(data) <= MaxRows
          /\ PagingStep(fetch_page(paging, data))

(* while current_since < end: the exchange call raises, and so does        *)
(* fetch_ohlcv, which has no handler.                                      *)
PageFails ==
    /\ paging.pc = "loop"
    /\ paging.current_since < paging.end
    /\ PagingStep([paging EXCEPT !.pc = "raised"])

(* The while condition is false: the frame is built and returned. *)
LoopEnds ==
    /\ paging.pc = "loop"
    /\ paging.current_since >= paging.end
    /\ PagingStep([paging EXCEPT !.pc = "returned"])

PagingNext == PageAnswered \/ PageFails \/ LoopEnds

PagingSpec == PagingInit /\ [][PagingNext]_vars

(* The interpreter keeps running the loop: a pass that can be made is made. *)
PagingFairSpec == PagingSpec /\ WF_vars(PagingNext)

(* C39: as long as no page the exchange answers ends before the since it   *)
(* was asked from, fetch_ohlcv's loop comes to an end; every pass that     *)
(* takes such a non-empty page leaves current_since above what it was; and *)
(* the loop is left for the frame only after an empty page or with         *)
(* current_since >= end (an exchange call that raises ends the call too).  *)
C39_PagingTerminates ==
    /\ <>(paging.pc \in {"returned", "raised"} \/ paging.behind)
    /\ [][(paging.pc = "loop" /\ paging'.pages > paging.pages /\ paging'.data # <<>>
             /\ paging'.data[Len(paging'.data)] >= paging.current_since) =>
                 paging'.current_since > paging.current_since]_vars
    /\ [](paging.pc = "returned" =>
             \/ paging.pages > 0 /\ paging.data = <<>>
             \/ paging.current_since >= paging.end)

(* The loop has taken two pages or more, each ending at or after the since *)
(* it was asked from, and was left because current_since reached end.      *)
C39_Witness ==
    /\ paging.pc = "returned"
    /\ paging.pages >= 2
    /\ ~paging.behind
    /\ paging.data # <<>>
    /\ paging.since < paging.end
    /\ paging.current_since >= paging.end

(* Without the proviso the loop can go on: a page that ends before the     *)
(* since it was asked from moves current_since back.                       *)
PageBehindMovesSinceBack ==
    /\ paging.pc = "loop"
    /\ paging.behind
    /\ paging.current_since < paging.since

====
